---- MODULE Spec2Model ----
(***************************************************************************)
(* Model of the query translation engine of postgres-data-store            *)
(* (src/src/QueryBuilder.ts): a query/update document goes in, a Built     *)
(* Query {sql, values} comes out.                                          *)
(*                                                                         *)
(* SQL text is modelled as a sequence of lexemes (strings): the text the   *)
(* code builds is the lexemes joined by the white space and punctuation    *)
(* the templates carry.  A placeholder `$n` is the lexeme "$n".            *)
(* JavaScript values are records [t, s, keys, elems]: t is the type tag,   *)
(* s the payload of a primitive, keys/elems the own properties of an       *)
(* object (in insertion order) or the elements of an array.                *)
(***************************************************************************)
EXTENDS Integers, Sequences, FiniteSets, TLC

VARIABLES
    quoteEnv,   \* process.env.POSTGRES_SHOULD_QUOTE_FIELD_NAMES
    pc,         \* "idle": no Built Query at hand; "returned": a call returned one
    call,       \* the arguments of the last call
    built,      \* the Built Query the last call returned
    pgIndexes,  \* the rows of pg_indexes of the collection: name and uniqueness
    connection, \* the statements sent on the client's connection, not yet executed
    sync,       \* the running (or last) call of syncIndexes / syncUniqueIndexes
    indexCall,  \* the running call of createIndex / createUniqueIndex / dropIndex
    nameVariant, \* which of the two generateIndexName of indexUtils.ts is built
    client,     \* the adapter's client: connected or not, and what connect() raised
    table,      \* the rows of the collection's table, in the server's order
    dbCall,     \* the running (or last) call of create / update / updateOne / upsertOne
    callers,    \* the calls of upsertOne of concurrent callers, one each
    idSeq,      \* the next value of the sequence that fills the table's id
    tableAtStart, \* the rows of the table before the first of the concurrent calls
    idFormat,   \* process.env.POSTGRES_ID_FORMAT
    idCount,    \* the adapter's id counter
    generated   \* the ids generateId has returned, with the format each call saw

builderVars == <<quoteEnv, pc, call, built>>
indexVars == <<pgIndexes, connection, sync, indexCall, nameVariant>>
dbVars == <<client, table, dbCall, callers, idSeq, tableAtStart>>
idVars == <<idFormat, idCount, generated>>
vars == <<builderVars, indexVars, dbVars, idVars>>

----------------------------------------------------------------------------
(* Bounds of the input documents.                                          *)

MaxKeys == 2        \* keys of a flat document, fields of a $push
MaxOr == 2          \* sub-documents of one $or
MaxIn == 2          \* elements of one $in list
MaxRecords == 2     \* records of one create

----------------------------------------------------------------------------
(* JavaScript values.                                                      *)

JsValue(t, s, keys, elems) == [t |-> t, s |-> s, keys |-> keys, elems |-> elems]

Undefined == JsValue("undefined", "", <<>>, <<>>)
Null == JsValue("null", "", <<>>, <<>>)
Num(s) == JsValue("number", s, <<>>, <<>>)
Str(s) == JsValue("string", s, <<>>, <<>>)
Bool(s) == JsValue("boolean", s, <<>>, <<>>)
RegExp(source) == JsValue("regexp", source, <<>>, <<>>)
Arr(elems) == JsValue("array", "", <<>>, elems)
Obj(keys, elems) == JsValue("object", "", keys, elems)

\* ToBoolean: what `if (x)` and `x ? :` test.
Truthy(v) ==
    CASE v.t = "undefined" -> FALSE
      [] v.t = "null" -> FALSE
      [] v.t = "number" -> v.s # "0"
      [] v.t = "string" -> v.s # ""
      [] v.t = "boolean" -> v.s = "true"
      [] OTHER -> TRUE

\* value?.k : the own property k of an object, undefined for anything else.
Get(value, k) ==
    IF value.t = "object" /\ \E i \in 1..Len(value.keys) : value.keys[i] = k
    THEN value.elems[CHOOSE i \in 1..Len(value.keys) : value.keys[i] = k]
    ELSE Undefined

\* Object.keys(o)
ObjectKeys(o) == o.keys

\* Array.prototype.join on strings.
RECURSIVE JoinStr(_, _)
JoinStr(parts, sep) ==
    IF Len(parts) = 0 THEN ""
    ELSE IF Len(parts) = 1 THEN parts[1]
    ELSE parts[1] \o sep \o JoinStr(Tail(parts), sep)

\* Array.prototype.join on pieces of SQL: each part is a sequence of lexemes.
RECURSIVE Join(_, _)
Join(parts, sep) ==
    IF Len(parts) = 0 THEN <<>>
    ELSE IF Len(parts) = 1 THEN parts[1]
    ELSE parts[1] \o <<sep>> \o Join(Tail(parts), sep)

\* text.includes(lexeme), on a text kept as a sequence of lexemes.
Includes(text, lexeme) == \E i \in 1..Len(text) : text[i] = lexeme

\* The one member of a singleton set.  {e(x) : x \in {v}} binds x to the value
\* of v once, as a JavaScript `const x = v` does.
The(S) == CHOOSE x \in S : TRUE

SelectSeqIdx(s, Test(_)) ==
    LET RECURSIVE Pick(_)
        Pick(i) == IF i > Len(s) THEN <<>>
                   ELSE (IF Test(i) THEN <<i>> ELSE <<>>) \o Pick(i + 1)
    IN Pick(1)

\* JSON.stringify(v) for a defined v.
RECURSIVE JsonStringify(_)
JsonStringify(v) ==
    CASE v.t = "number" -> v.s
      [] v.t = "boolean" -> v.s
      [] v.t = "string" -> "\"" \o v.s \o "\""
      [] v.t = "null" -> "null"
      [] v.t = "undefined" -> "null"      \* as an array element
      [] v.t = "regexp" -> "{}"
      [] v.t = "array" ->
            "[" \o JoinStr([i \in 1..Len(v.elems) |-> JsonStringify(v.elems[i])], ",") \o "]"
      [] OTHER ->
            LET defined == SelectSeqIdx(v.keys, LAMBDA i : v.elems[i].t # "undefined")
            IN "{" \o JoinStr([j \in 1..Len(defined) |->
                         "\"" \o v.keys[defined[j]] \o "\":"
                              \o JsonStringify(v.elems[defined[j]])], ",") \o "}"

\* JSON.stringify(array) without its first and last character.
JsonArrayInner(v) ==
    JoinStr([i \in 1..Len(v.elems) |-> JsonStringify(v.elems[i])], ",")

\* `${value}` : the template-literal string conversion.
RECURSIVE TemplateString(_)
TemplateString(v) ==
    CASE v.t = "number" -> v.s
      [] v.t = "boolean" -> v.s
      [] v.t = "string" -> v.s
      [] v.t = "null" -> "null"
      [] v.t = "undefined" -> "undefined"
      [] v.t = "regexp" -> "/" \o v.s \o "/"
      [] v.t = "array" ->
            JoinStr([i \in 1..Len(v.elems) |->
                        IF v.elems[i].t \in {"null", "undefined"} THEN ""
                        ELSE TemplateString(v.elems[i])], ",")
      [] OTHER -> "[object Object]"

----------------------------------------------------------------------------
(* Identifiers.  A column or table name is a string; what the code asks    *)
(* of it (includes(' '), includes('.'), split('.')) is tabulated for the   *)
(* names the inputs use.                                                   *)

SpacedNames == {"first name"}
DotParts == [k \in {"meta.tag"} |->
                CASE k = "meta.tag" -> <<"meta", "tag">>]

\* f.includes(' ') for an identifier given as the pieces of SQL it is made of.
IncludesSpace(f) == Len(f) > 1 \/ f[1] \in SpacedNames
\* k.includes('.')
IncludesDot(k) == k \in DOMAIN DotParts
\* k.split('.')
SplitDot(k) == DotParts[k]

\* quote(f)
quote(f) == IF IncludesSpace(f) THEN f ELSE <<"\"" \o f[1] \o "\"">>

\* get shouldQuote: read from the environment at every use.
shouldQuote_AtConstruction == FALSE
shouldQuote == quoteEnv = "true"

\* conditionalQuote(fieldName)
conditionalQuote(fieldName) == IF shouldQuote THEN quote(fieldName) ELSE fieldName

\* buildTableName(tableName)
buildTableName(tableName) == conditionalQuote(<<tableName>>)

----------------------------------------------------------------------------
(* The value normalizer.                                                   *)

\* isValueObject(value)
isValueObject(value) ==
    value.t # "null" /\ value.t \in {"array", "object", "regexp"}

\* normalizeValue(value)
normalizeValue(value) ==
    LET v1 == IF value.t = "regexp" THEN Str(value.s) ELSE value
        v2 == IF isValueObject(v1)
              THEN IF v1.t = "array"
                   THEN Str("{" \o JsonArrayInner(v1) \o "}")
                   ELSE Str(JsonStringify(v1))
              ELSE v1
    IN IF v2.t \in {"undefined", "null"} THEN Null ELSE v2

----------------------------------------------------------------------------
(* The equality / where clause builder.                                    *)

\* `$${n}` : the lexeme of placeholder n.
Placeholder(n) == "$" \o ToString(n)

\* The default placeholderTemplate '${{count}}' and the $push template
\* '"{{fieldName}}" || ARRAY[${{count}}]', as lexemes.
DefaultTemplate == <<"${{count}}">>
PushTemplate == <<"\"{{fieldName}}\"", "||", "ARRAY[", "${{count}}", "]">>

\* placeholderTemplate.replace(/{{count}}/gm, count).replace(/{{fieldName}}/gm, k)
FillTemplate(placeholderTemplate, count, k) ==
    [i \in 1..Len(placeholderTemplate) |->
        CASE placeholderTemplate[i] = "${{count}}" -> Placeholder(count)
          [] placeholderTemplate[i] = "\"{{fieldName}}\"" -> "\"" \o k \o "\""
          [] OTHER -> placeholderTemplate[i]]

\* The options object of buildEqualityClause with its defaults applied.
EqualityOptions(query, startingCount, placeholderTemplate, isBuildingWhere, useIsNull) ==
    [query |-> query, startingCount |-> startingCount,
     placeholderTemplate |-> placeholderTemplate,
     isBuildingWhere |-> isBuildingWhere, useIsNull |-> useIsNull]

\* One comparison clause `k <op> $n` binding the truthy tag value v.
CompareClause(acc, formattedK, op, v) ==
    [placeholderCount |-> acc.placeholderCount + 1,
     values |-> Append(acc.values, normalizeValue(v)),
     set |-> Append(acc.set,
                    formattedK \o <<op, Placeholder(acc.placeholderCount + 1)>>)]

RECURSIVE buildEqualityClause(_)
RECURSIVE buildSetClausForOr(_, _)

\* The body of queryKeys.forEach((k) => ...) in buildEqualityClause:
\* acc holds the closure's placeholderCount, values and set.
equalityClauseForKey(options, k, acc) ==
    LET value == Get(options.query, k)
        isNull == value.t = "null" /\ options.useIsNull
        formattedK == conditionalQuote(<<k>>)
        in == Get(value, "$in")
        ne == Get(value, "$ne")
    IN
    IF Truthy(in) THEN
        [placeholderCount |-> acc.placeholderCount + Len(in.elems),
         values |-> acc.values \o
                    [i \in 1..Len(in.elems) |-> normalizeValue(in.elems[i])],
         set |-> Append(acc.set,
                    formattedK \o <<"IN", "(">>
                    \o Join([i \in 1..Len(in.elems) |->
                                <<Placeholder(acc.placeholderCount + i)>>], ",")
                    \o <<")">>)]
    ELSE IF Get(value, "$type") = Str("string") \/ Truthy(Get(value, "$exists")) THEN
        [acc EXCEPT !.set = Append(@, formattedK \o <<"IS NOT NULL">>)]
    ELSE IF Truthy(Get(value, "$regex")) THEN
        CompareClause(acc, formattedK, "~*", Get(value, "$regex"))
    ELSE IF Truthy(Get(value, "$lte")) THEN
        CompareClause(acc, formattedK, "<=", Get(value, "$lte"))
    ELSE IF Truthy(Get(value, "$lt")) THEN
        CompareClause(acc, formattedK, "<", Get(value, "$lt"))
    ELSE IF Truthy(Get(value, "$gte")) THEN
        CompareClause(acc, formattedK, ">=", Get(value, "$gte"))
    ELSE IF Truthy(Get(value, "$gt")) THEN
        CompareClause(acc, formattedK, ">", Get(value, "$gt"))
    ELSE IF ne.t # "undefined" THEN
        IF ne.t = "null"
        THEN [acc EXCEPT !.set = Append(@, formattedK \o <<"IS NOT NULL">>)]
        ELSE CompareClause(acc, formattedK, "!=", ne)
    ELSE IF k = "$or" THEN
        The({[acc EXCEPT !.set = Append(@, <<"(">> \o Join(or.set, "OR") \o <<")">>),
                         !.values = @ \o or.values]
             : or \in {buildSetClausForOr(value, acc.placeholderCount)}})
    ELSE IF k = "$push" THEN
        The({[placeholderCount |-> acc.placeholderCount + 1,
              values |-> acc.values \o sub.values,
              set |-> acc.set \o sub.set]
             : sub \in {buildEqualityClause(
                            EqualityOptions(value, acc.placeholderCount, PushTemplate,
                                            FALSE, TRUE))}})
    ELSE IF isNull \/ value.t = "undefined" THEN
        [acc EXCEPT !.set = Append(@, formattedK \o <<"IS NULL">>)]
    ELSE
        LET count == acc.placeholderCount + 1
            filled == FillTemplate(options.placeholderTemplate, count, k)
            isDotSearch == IncludesDot(k)
            field == IF isDotSearch THEN SplitDot(k)[1] ELSE k
            prop == IF isDotSearch THEN SplitDot(k)[2] ELSE ""
            k2 == IF isDotSearch /\ options.isBuildingWhere
                  THEN <<field, "->>", "'" \o prop \o "'">>
                  ELSE <<field>>
            value2 == IF isDotSearch /\ options.isBuildingWhere
                      THEN Str(TemplateString(value))
                      ELSE value
            placeholder == IF isDotSearch /\ ~options.isBuildingWhere
                           THEN <<"\"" \o field \o "\"", "||",
                                  "jsonb_build_object(", "'" \o prop \o "'", ",">>
                                \o filled \o <<"::text", ")">>
                           ELSE filled
        IN [placeholderCount |-> count,
            values |-> Append(acc.values, normalizeValue(value2)),
            set |-> Append(acc.set, conditionalQuote(k2) \o <<"=">> \o placeholder)]

\* queryKeys.forEach over the keys from index i on.
RECURSIVE queryKeysForEach(_, _, _)
queryKeysForEach(options, i, acc) ==
    IF i > Len(ObjectKeys(options.query)) THEN acc
    ELSE The({queryKeysForEach(options, i + 1, next)
              : next \in {equalityClauseForKey(options, ObjectKeys(options.query)[i],
                                               acc)}})

\* buildEqualityClause(options): {set, values}
buildEqualityClause(options) ==
    The({[set |-> done.set, values |-> done.values]
         : done \in {queryKeysForEach(options, 1,
                        [placeholderCount |-> options.startingCount,
                         values |-> <<>>, set |-> <<>>])}})

\* value.forEach((q) => ...) in buildSetClausFor$Or, from sub-document i on:
\* placeholderCount is the function's own parameter, incremented once per
\* sub-document.
RECURSIVE orForEach(_, _, _, _)
orForEach(value, i, placeholderCount, acc) ==
    IF i > Len(value.elems) THEN acc
    ELSE The({orForEach(value, i + 1, placeholderCount + 1,
                        [set |-> acc.set \o r.set, values |-> acc.values \o r.values])
              : r \in {buildEqualityClause(
                           EqualityOptions(value.elems[i], placeholderCount,
                                           DefaultTemplate, FALSE, TRUE))}})

\* buildSetClausFor$Or(value, placeholderCount): {set: ors, values: orValues}
buildSetClausForOr(value, placeholderCount) ==
    orForEach(value, 1, placeholderCount, [set |-> <<>>, values |-> <<>>])

\* A variant of optionallyBuildWhere without the test for an empty document.
optionallyBuildWhere_NoEmptyTest(query, startingPlaceholderCount) ==
    The({[sql |-> <<"WHERE">> \o Join(w.set, "AND"), values |-> w.values]
         : w \in {buildEqualityClause(
                      EqualityOptions(query, startingPlaceholderCount,
                                      DefaultTemplate, TRUE, TRUE))}})

\* optionallyBuildWhere(query, startingPlaceholderCount): {values, sql}
optionallyBuildWhere(query, startingPlaceholderCount) ==
    IF Len(ObjectKeys(query)) > 0
    THEN The({[sql |-> <<"WHERE">> \o Join(w.set, "AND"), values |-> w.values]
              : w \in {buildEqualityClause(
                           EqualityOptions(query, startingPlaceholderCount,
                                           DefaultTemplate, TRUE, TRUE))}})
    ELSE [sql |-> <<>>, values |-> <<>>]

----------------------------------------------------------------------------
(* The statements.                                                         *)

\* The options of find; an option that is not given is Undefined (skip,
\* limit) or <<>> with its `has` flag off (includeFields, sort).
FindOptions(hasInclude, includeFields, skip, hasSort, sort, limit) ==
    [hasInclude |-> hasInclude, includeFields |-> includeFields, skip |-> skip,
     hasSort |-> hasSort, sort |-> sort, limit |-> limit]

NoOptions == FindOptions(FALSE, <<>>, Undefined, FALSE, <<>>, Undefined)

\* buildColumnListFromIncludeFields(includeFields)
buildColumnListFromIncludeFields(options) ==
    IF ~options.hasInclude THEN <<"*">>
    ELSE Join([i \in 1..Len(options.includeFields) |->
                  quote(<<options.includeFields[i]>>)], ",")

\* optionallyBuildSort(sort)
optionallyBuildSort(options) ==
    IF options.hasSort
    THEN <<"ORDER BY">> \o
         Join([i \in 1..Len(options.sort) |->
                  conditionalQuote(<<options.sort[i].field>>)
                  \o <<options.sort[i].direction>>], ",")
    ELSE <<>>

\* optionallyBuildSkip with `if (limit)` in place of the typeof test.
optionallyBuildSkip_Truthy(limit) ==
    IF Truthy(limit) THEN <<"OFFSET", limit.s>> ELSE <<>>

\* optionallyBuildSkip(limit)
optionallyBuildSkip(limit) ==
    IF limit.t = "number" THEN <<"OFFSET", limit.s>> ELSE <<>>

\* optionallyBuildLimit(limit)
optionallyBuildLimit(limit) ==
    IF limit.t = "number" THEN <<"LIMIT", limit.s>> ELSE <<>>

\* find(tableName, query, options)
find(tableName, query, options) ==
    LET fields == buildColumnListFromIncludeFields(options)
    IN The({[sql |-> <<"SELECT">> \o fields \o <<"FROM">> \o buildTableName(tableName)
                     \o where.sql
                     \o optionallyBuildSkip(options.skip)
                     \o optionallyBuildSort(options)
                     \o optionallyBuildLimit(options.limit),
             values |-> where.values]
            : where \in {optionallyBuildWhere(query, 0)}})

\* delete(tableName, query)
delete(tableName, query) ==
    The({[sql |-> <<"DELETE FROM">> \o buildTableName(tableName) \o where.sql,
          values |-> where.values]
         : where \in {optionallyBuildWhere(query, 0)}})

\* update(tableName, query, updates, shouldReturnUpdatedRecords)
update(tableName, query, updates, shouldReturnUpdatedRecords) ==
    The({The({[sql |-> <<"UPDATE">> \o buildTableName(tableName) \o <<"SET">>
                       \o Join(s.set, ",") \o where.sql
                       \o (IF shouldReturnUpdatedRecords
                           THEN <<"RETURNING", "*">> ELSE <<>>),
               values |-> s.values \o where.values]
              : where \in {optionallyBuildWhere(query, Len(s.values))}})
         : s \in {buildEqualityClause(
                      EqualityOptions(updates, 0, DefaultTemplate, FALSE, FALSE))}})

\* Array.from(new Set(fields)): the first occurrence of each field, in order.
RECURSIVE Dedupe(_)
Dedupe(s) ==
    IF s = <<>> THEN <<>>
    ELSE LET front == Dedupe(SubSeq(s, 1, Len(s) - 1))
             last == s[Len(s)]
         IN IF \E i \in 1..Len(front) : front[i] = last THEN front
            ELSE Append(front, last)

\* records.map((r) => Object.keys(r)).flat()
RECURSIVE Flat(_)
Flat(ss) == IF ss = <<>> THEN <<>> ELSE Head(ss) \o Flat(Tail(ss))

\* A variant of buildColumnListFromAllRecords that keeps repeated fields.
buildColumnListFromAllRecords_NoSet(records) ==
    Flat([r \in 1..Len(records) |-> ObjectKeys(records[r])])

\* buildColumnListFromAllRecords(records)
buildColumnListFromAllRecords(records) ==
    Dedupe(Flat([r \in 1..Len(records) |-> ObjectKeys(records[r])]))

\* fieldValueToSqlValue(record, f)
fieldValueToSqlValue(record, f) == normalizeValue(Get(record, f))

\* fields.forEach((f) => ...) for one record, from field c on: acc holds the
\* shared placeholderCount and values, and the record's own placeholders.
RECURSIVE fieldsForEach(_, _, _, _)
fieldsForEach(record, fields, c, acc) ==
    IF c > Len(fields) THEN acc
    ELSE LET f == fields[c]
             count == acc.placeholderCount + 1
             placeholder ==
                 <<Placeholder(count)>>
                 \o (IF isValueObject(Get(record, f)) /\ Get(record, f).t # "array"
                     THEN <<"::json">> ELSE <<>>)
         IN The({fieldsForEach(record, fields, c + 1, next)
                 : next \in {[placeholderCount |-> count,
                              values |-> Append(acc.values,
                                                fieldValueToSqlValue(record, f)),
                              placeholders |-> Append(acc.placeholders, placeholder)]}})

\* records.map((record) => ...) from record r on: acc holds placeholderCount,
\* values and the rows mapped so far.
RECURSIVE recordsMap(_, _, _, _)
recordsMap(records, fields, r, acc) ==
    IF r > Len(records) THEN acc
    ELSE The({recordsMap(records, fields, r + 1,
                  [placeholderCount |-> row.placeholderCount,
                   values |-> row.values,
                   rows |-> Append(acc.rows,
                                   <<"(">> \o Join(row.placeholders, ",") \o <<")">>)])
              : row \in {fieldsForEach(records[r], fields, 1,
                            [placeholderCount |-> acc.placeholderCount,
                             values |-> acc.values, placeholders |-> <<>>])}})

\* splitRecordsIntoFieldsPlaceholdersAndValues(records)
splitRecordsIntoFieldsPlaceholdersAndValues(records) ==
    The({The({[fields |-> fields, placeholders |-> done.rows, values |-> done.values]
              : done \in {recordsMap(records, fields, 1,
                             [placeholderCount |-> 0, values |-> <<>>, rows |-> <<>>])}})
         : fields \in {buildColumnListFromAllRecords(records)}})

\* createWithoutReturning(tableName, records)
createWithoutReturning(tableName, records) ==
    The({[sql |-> <<"INSERT INTO">> \o buildTableName(tableName) \o <<"(">>
                  \o Join([i \in 1..Len(s.fields) |->
                              conditionalQuote(<<s.fields[i]>>)], ",")
                  \o <<")", "VALUES">> \o Join(s.placeholders, ","),
          values |-> s.values]
         : s \in {splitRecordsIntoFieldsPlaceholdersAndValues(records)}})

\* create(tableName, records)
create(tableName, records) ==
    The({[sql |-> c.sql \o <<"RETURNING", "*">>, values |-> c.values]
         : c \in {createWithoutReturning(tableName, records)}})

----------------------------------------------------------------------------
(* The bounded inputs.                                                     *)

\* Sequences of n distinct members of S.
DistinctSeqs(S, n) ==
    {ks \in [1..n -> S] : \A i, j \in 1..n : i # j => ks[i] # ks[j]}

\* Sequences of lo..hi members of S.
SeqsOf(S, lo, hi) == UNION {[1..n -> S] : n \in lo..hi}

\* Documents of lo..hi distinct keys out of `fields`, values out of `values`.
Docs(fields, values, lo, hi) ==
    UNION {{Obj(ks, vs) : ks \in DistinctSeqs(fields, n), vs \in [1..n -> values]}
           : n \in lo..hi}

EmptyDoc == Obj(<<>>, <<>>)

Tables == {"users"}
Fields == {"age", "name", "first name", "meta.tag"}
PlainFields == {"age", "name", "first name"}

\* Literal comparison values: numbers, strings and booleans, falsy ones included.
Lits == {Num("0"), Num("3"), Str(""), Str("Joe"), Bool("false"), Bool("true")}
Composites == {Arr(<<Str("a"), Str("b")>>), Obj(<<"x">>, <<Num("1")>>), RegExp("^jo")}
CoreLits == {Num("0"), Str("Joe"), Arr(<<Str("a"), Str("b")>>)}

\* The tags of an operator clause, in the order buildEqualityClause tests them.
Tags == <<"$in", "$type", "$exists", "$regex", "$lte", "$lt", "$gte", "$gt", "$ne">>
TagSet == {Tags[i] : i \in 1..Len(Tags)}
CompareTags == {"$lte", "$lt", "$gte", "$gt"}

InLists == {Arr(l) : l \in SeqsOf({Num("3"), Str("Joe")}, 0, MaxIn)}

TagValues(tag) ==
    CASE tag = "$in" -> InLists
      [] tag = "$type" -> {Str("string"), Str("number")}
      [] tag = "$exists" -> {Bool("true"), Bool("false")}
      [] tag = "$regex" -> {Str("^jo"), Str(""), RegExp("^jo")}
      [] tag = "$ne" -> Lits \cup {Null}
      [] OTHER -> Lits

\* One truthy and one falsy value per tag, for clauses of several tags.
PairValues(tag) ==
    CASE tag = "$in" -> {Arr(<<Num("3")>>), Arr(<<>>)}
      [] tag = "$type" -> {Str("string"), Str("number")}
      [] tag = "$exists" -> {Bool("true"), Bool("false")}
      [] tag = "$regex" -> {Str("^jo"), Str("")}
      [] tag = "$ne" -> {Num("3"), Null}
      [] OTHER -> {Num("3"), Num("0")}

SingleTagClauses == UNION {{Obj(<<tag>>, <<v>>) : v \in TagValues(tag)} : tag \in TagSet}
TwoTagClauses ==
    UNION {{Obj(<<t1, t2>>, <<v1, v2>>) : v1 \in PairValues(t1), v2 \in PairValues(t2)}
           : <<t1, t2>> \in {p \in TagSet \X TagSet : p[1] # p[2]}}

\* Flat documents: literal values under field names.
FlatDocs == Docs(Fields, CoreLits, 0, MaxKeys) \cup Docs(Fields, Lits \cup Composites, 1, 1)
NullDocs == Docs(Fields, {Null, Undefined, Str("Joe")}, 1, 2)
ClauseDocs == Docs(Fields, SingleTagClauses, 1, 1) \cup Docs({"age"}, TwoTagClauses, 1, 1)

\* $or: a list of sub-documents, alone, before or after another key.
OrFields == {"age", "name"}
OrSubDocs == Docs(OrFields, {Str("Joe"), Null}, 1, MaxKeys)
            \cup Docs({"age"}, {Obj(<<"$in">>, <<Arr(<<Num("3"), Str("Joe")>>)>>),
                                Obj(<<"$gt">>, <<Num("3")>>)}, 1, 1)
OrLists == {Arr(l) : l \in SeqsOf(OrSubDocs, 1, MaxOr)}
OrDocs ==
    UNION {{Obj(<<"$or">>, <<l>>),
            Obj(<<"$or", "name">>, <<l, Str("Joe")>>),
            Obj(<<"name", "$or">>, <<Str("Joe"), l>>)} : l \in OrLists}

QueryDocs == FlatDocs \cup NullDocs \cup ClauseDocs \cup OrDocs

\* The options of find that are tried, on the queries of OptionQueries.
SortField(field, direction) == [field |-> field, direction |-> direction]
OptionSets ==
    {FindOptions(FALSE, <<>>, Undefined, FALSE, <<>>, Num("10")),
     FindOptions(FALSE, <<>>, Undefined, FALSE, <<>>, Num("0")),
     FindOptions(FALSE, <<>>, Num("10"), FALSE, <<>>, Undefined),
     FindOptions(FALSE, <<>>, Num("0"), FALSE, <<>>, Undefined),
     FindOptions(FALSE, <<>>, Undefined, TRUE, <<SortField("name", "ASC")>>, Undefined),
     FindOptions(FALSE, <<>>, Undefined, TRUE,
                 <<SortField("name", "ASC"), SortField("first name", "DESC")>>, Undefined),
     FindOptions(TRUE, <<"id", "name">>, Undefined, FALSE, <<>>, Undefined),
     FindOptions(TRUE, <<"id", "first name">>, Num("0"), TRUE,
                 <<SortField("name", "DESC")>>, Num("10"))}
OptionQueries ==
    {EmptyDoc, Obj(<<"name">>, <<Str("Joe")>>), Obj(<<"meta.tag">>, <<Num("3")>>)}

\* update: the update documents and the queries they are combined with.
PushFields == {"names", "things"}
PushDocs == Docs(PushFields, {Str("hey"), Num("3")}, 1, MaxKeys)
UpdateDocs ==
    Docs({"name", "meta.tag"}, {Str("Joe"), Num("0"), Null, Undefined}, 0, MaxKeys)
    \cup UNION {{Obj(<<"$push">>, <<p>>),
                 Obj(<<"$push", "name">>, <<p, Str("Joe")>>),
                 Obj(<<"name", "$push">>, <<Str("Joe"), p>>)} : p \in PushDocs}
UpdateQueries ==
    {EmptyDoc,
     Obj(<<"id">>, <<Str("123")>>),
     Obj(<<"id">>, <<Null>>),
     Obj(<<"id", "name">>, <<Str("123"), Str("Joe")>>),
     Obj(<<"age">>, <<Obj(<<"$in">>, <<Arr(<<Num("3"), Str("Joe")>>)>>)>>),
     Obj(<<"$or">>, <<Arr(<<Obj(<<"age">>, <<Num("3")>>), Obj(<<"name">>, <<Str("Joe")>>)>>)>>),
     Obj(<<"$or">>, <<Arr(<<Obj(<<"age">>, <<Null>>), Obj(<<"name">>, <<Str("Joe")>>)>>)>>)}

\* create: lists of records.
CreateFields == {"firstName", "names"}
CreateValues == {Str("Joe"), Arr(<<Str("a"), Str("b")>>), Obj(<<"x">>, <<Num("1")>>)}
Records == Docs(CreateFields, CreateValues, 0, MaxKeys)
RecordLists == SeqsOf(Records, 0, MaxRecords)

----------------------------------------------------------------------------
(* Index names (indexUtils.ts) and index synchronisation                   *)
(* (PostgresDatabase).  An index name is kept as the sequence of its       *)
(* pieces between underscores: <<"users", "email", "index">> stands for    *)
(* users_email_index, so that join('_') is concatenation and split('_') is *)
(* the sequence itself.  An index is a record [fields |-> <<...>>].        *)

MaxDesired == 2      \* indexes in one desired list
MaxSyncCalls == 2    \* calls of synchronisation in a row with the same arguments

\* The pieces of a field name between `_` and `.` (the `.` of a field is
\* replaced by `_` in an index name).
NameParts ==
    [f \in {"email", "slug", "firstName", "firstname", "first", "name", "ghost"} |-> <<f>>]
    @@ ("first_name" :> <<"first", "name">>)
    @@ ("meta.tag" :> <<"meta", "tag">>)

\* String.prototype.toLowerCase on one piece.
toLowerCase(piece) == IF piece = "firstName" THEN "firstname" ELSE piece

LowerParts(field) ==
    IF field \in DOMAIN NameParts
    THEN [i \in 1..Len(NameParts[field]) |-> toLowerCase(NameParts[field][i])]
    ELSE <<toLowerCase(field)>>      \* a piece read back from an index name

Index(fields) == [fields |-> fields]

\* normalizeIndex(index): the fields of the index as given.
normalizeIndex(index) == index

AsGivenParts(field) ==
    IF field \in DOMAIN NameParts THEN NameParts[field] ELSE <<field>>

\* indexUtils.ts defines generateIndexName twice: without toLowerCase and
\* with it.  Either one can be the one that is built.
NameVariants == {"asGiven", "lowerCase"}

\* generateIndexName(collection, index)
generateIndexName(collection, index) ==
    <<collection>>
    \o Flat([i \in 1..Len(normalizeIndex(index).fields) |->
                IF nameVariant = "lowerCase"
                THEN LowerParts(normalizeIndex(index).fields[i])
                ELSE AsGivenParts(normalizeIndex(index).fields[i])])
    \o <<"index">>

\* An index descriptor with a filter document (undefined when it has none).
IndexWithFilter(fields, filter) == [fields |-> fields, filter |-> filter]

\* generateKeyExpression(field), generateKeyExpressions(fields)
generateKeyExpression(field) ==
    IF IncludesDot(field)
    THEN <<"(" \o SplitDot(field)[1] \o "->>'" \o SplitDot(field)[2] \o "')">>
    ELSE quote(<<field>>)
generateKeyExpressions(fields) ==
    Join([i \in 1..Len(fields) |-> generateKeyExpression(fields[i])], ", ")

\* QueryBuilder.createIndex(tableName, index, isUnique): the Built Query.
createIndex(tableName, index, isUnique) ==
    LET fields == normalizeIndex(index).fields
        filter == normalizeIndex(index).filter
        indexName == JoinStr(generateIndexName(tableName, index), "_")
        keys == generateKeyExpressions(fields)
        query == <<"CREATE">> \o (IF isUnique THEN <<"UNIQUE">> ELSE <<>>)
                 \o <<"INDEX", indexName, "ON", "\"" \o tableName \o "\"", "(">>
                 \o keys \o <<")">>
    IN [sql |-> IF Truthy(filter) THEN query \o optionallyBuildWhere(filter, 0).sql
                ELSE query,
        values |-> <<>>]

\* The name of an index without the table name and the `_index` suffix,
\* by which two indexes are compared.
CanonicalName(index) ==
    Flat([i \in 1..Len(index.fields) |->
             IF index.fields[i] \in DOMAIN NameParts THEN LowerParts(index.fields[i])
             ELSE <<toLowerCase(index.fields[i])>>])

\* pluckMissingIndexes(left, right): the indexes of left that right has not.
pluckMissingIndexes(left, right) ==
    SelectSeq(left, LAMBDA l :
        \A i \in 1..Len(right) : CanonicalName(right[i]) # CanonicalName(l))

\* The rows of a query result, in the order the server gives them.
RECURSIVE Rows2Seq(_)
Rows2Seq(S) ==
    IF S = {} THEN <<>>
    ELSE LET x == CHOOSE x \in S : TRUE IN <<x>> \o Rows2Seq(S \ {x})

\* row.indexname.replace(`${collectionName}_`, ''): the first occurrence of
\* the collection name followed by `_` is taken out.
WithoutCollection(name, collectionName) ==
    LET at == {i \in 1..(Len(name) - 1) : name[i] = collectionName}
    IN IF at = {} THEN name
       ELSE LET i == CHOOSE i \in at : \A j \in at : i <= j
            IN SubSeq(name, 1, i - 1) \o SubSeq(name, i + 1, Len(name))

\* executeGetIndexes(collectionName, isUnique), on the rows of pg_indexes.
executeGetIndexes(rows, collectionName, isUnique) ==
    LET res == Rows2Seq({row \in rows : row.unique = isUnique})
        fieldsOf(row) ==
            LET indexName == WithoutCollection(row.indexname, collectionName)
            IN SubSeq(indexName, 1, Len(indexName) - 1)      \* split('_').slice(0, -1)
        parsed == [i \in 1..Len(res) |-> Index(fieldsOf(res[i]))]
    IN SelectSeq(parsed, LAMBDA index : Len(index.fields) > 0)

\* The message of the error the server gives for a failed statement on an
\* index, in lexemes.
PgMessage(failure, stmt) ==
    CASE failure = "already exists" ->
            <<"relation ", "\"">> \o stmt.indexname \o <<"\"", " ", "already exists">>
      [] failure = "column does not exist" ->
            <<"column ", "\"">> \o stmt.fields \o <<"\"", " ", "does not exist">>
      [] failure = "does not exist" ->
            <<"index ", "\"">> \o stmt.indexname \o <<"\"", " ", "does not exist">>
      [] OTHER -> <<>>

\* What createIndex, createUniqueIndex or dropIndex raises: nothing, the
\* driver's error as it is, or a DataStoresError with its code and options.
NoIndexError ==
    [collectionName |-> "", code |-> "", thrown |-> "none", message |-> <<>>,
     index |-> <<>>, missingIndex |-> <<>>]

\* The statements the adapter sends.
DropStatement(indexName) ==
    [fields |-> <<>>, unique |-> FALSE, indexname |-> indexName, kind |-> "DROP INDEX"]
CreateStatement(indexName, isUnique, fields) ==
    [fields |-> fields, unique |-> isUnique, indexname |-> indexName,
     kind |-> "CREATE INDEX"]

\* dropIndex(collectionName, index): the statement it sends, and the error
\* it raises when the statement fails.
dropIndex(collectionName, index) ==
    DropStatement(generateIndexName(collectionName, index))
dropIndexThrown(failed, collectionName, index) ==
    IF failed
    THEN [NoIndexError EXCEPT !.thrown = "DataStoresError", !.code = "INDEX_NOT_FOUND",
                              !.collectionName = collectionName,
                              !.missingIndex = normalizeIndex(index).fields]
    ELSE NoIndexError
dropIndexError(failure) ==
    dropIndexThrown(failure # "none", "", Index(<<>>)).code

\* executeCreateIndex(collection, index, isUnique): the statement it sends,
\* and the error it raises when the statement fails ("driver": the driver's
\* error as it is).
executeCreateIndex(collection, index, isUnique) ==
    CreateStatement(generateIndexName(collection, index), isUnique,
                    normalizeIndex(index).fields)
executeCreateIndexThrown_UniqueField(failed, message, collection, index) ==
    IF ~failed THEN NoIndexError
    ELSE IF Includes(message, "already exists")
    THEN [NoIndexError EXCEPT !.thrown = "DataStoresError", !.code = "INDEX_EXISTS",
                              !.collectionName = collection,
                              !.index = <<"uniqueField">>]
    ELSE [NoIndexError EXCEPT !.thrown = "driver", !.message = message]
executeCreateIndexThrown(failed, message, collection, index) ==
    IF ~failed THEN NoIndexError
    ELSE IF Includes(message, "already exists")
    THEN [NoIndexError EXCEPT !.thrown = "DataStoresError", !.code = "INDEX_EXISTS",
                              !.collectionName = collection,
                              !.index = normalizeIndex(index).fields]
    ELSE [NoIndexError EXCEPT !.thrown = "driver", !.message = message]
executeCreateIndexError(failure, stmt) ==
    LET err == executeCreateIndexThrown(failure # "none", PgMessage(failure, stmt),
                                        "", Index(<<>>))
    IN IF err.thrown = "driver" THEN "driver" ELSE err.code

\* The catch of an addition in executeSyncIndexes.
syncAdditionError_NoExemption(err) ==
    IF err = "" THEN "" ELSE "DUPLICATE_KEY"
syncAdditionError(err) ==
    IF err \in {"", "INDEX_EXISTS"} THEN "" ELSE "DUPLICATE_KEY"

\* The columns of the table, as the server knows them.
TableColumns == {"email", "slug", "firstName", "first_name", "first", "name", "meta"}

\* generateKeyExpression(field): the column the key expression reads.
KeyColumn(field) == IF IncludesDot(field) THEN SplitDot(field)[1] ELSE field

\* The server executes one statement on the rows of pg_indexes.  An index
\* name that is not quoted is folded to lower case (CREATE INDEX); a quoted
\* one is taken as it is (DROP INDEX "...").
ExecuteStatement(stmt, rows) ==
    IF stmt.kind = "CREATE INDEX" THEN
        LET stored == [i \in 1..Len(stmt.indexname) |-> toLowerCase(stmt.indexname[i])]
        IN IF \E i \in 1..Len(stmt.fields) : KeyColumn(stmt.fields[i]) \notin TableColumns
           THEN [rows |-> rows, failure |-> "column does not exist"]
           ELSE IF \E row \in rows : row.indexname = stored
           THEN [rows |-> rows, failure |-> "already exists"]
           ELSE [rows |-> rows \cup {[unique |-> stmt.unique, indexname |-> stored]},
                 failure |-> "none"]
    ELSE
        IF \E row \in rows : row.indexname = stmt.indexname
        THEN [rows |-> {row \in rows : row.indexname # stmt.indexname},
              failure |-> "none"]
        ELSE [rows |-> rows, failure |-> "does not exist"]

\* The call of executeSyncIndexes in progress.
NoSync ==
    [pc |-> "idle", collectionName |-> "", isUnique |-> FALSE,
     outcome |-> "none", error |-> "", indexes |-> <<>>,
     toAdd |-> <<>>, toRemove |-> <<>>,
     issued |-> <<>>, failures |-> <<>>, answered |-> 0, callNo |-> 0]

\* The call of createIndex, createUniqueIndex or dropIndex in progress.
NoIndexCall ==
    [pc |-> "idle", collectionName |-> "", isUnique |-> FALSE, op |-> "none",
     index |-> Index(<<>>), failed |-> FALSE, message |-> <<>>,
     thrown |-> NoIndexError]

----------------------------------------------------------------------------
(* The adapter's data operations.  A text the driver gives (an error's     *)
(* message or detail) is a sequence of lexemes: the words and the marks    *)
(* the code looks for are one lexeme each, so that includes, match, split  *)
(* and replace work on lexemes.  A document (query, updates, record) is a  *)
(* function from field names to values; a row is a document over Columns.  *)

MaxBatch == 2        \* records in one call of create
MaxIds == 4          \* calls of generateId

\* text.split(sep): the pieces between the occurrences of sep.
RECURSIVE SplitText(_, _)
SplitText(text, sep) ==
    IF ~Includes(text, sep) THEN <<text>>
    ELSE LET i == CHOOSE i \in 1..Len(text) :
                      text[i] = sep /\ \A j \in 1..(i - 1) : text[j] # sep
         IN <<SubSeq(text, 1, i - 1)>> \o SplitText(SubSeq(text, i + 1, Len(text)), sep)

\* text.replace(/from/g, to)
ReplaceAll(text, from, to) ==
    [i \in 1..Len(text) |-> IF text[i] = from THEN to ELSE text[i]]
\* text.replace(/lexeme/g, '')
RemoveAll(text, lexeme) == SelectSeq(text, LAMBDA x : x # lexeme)
\* text.replace(lexeme, ''): the first occurrence only.
RemoveFirst(text, lexeme) ==
    IF ~Includes(text, lexeme) THEN text
    ELSE LET i == CHOOSE i \in 1..Len(text) :
                      text[i] = lexeme /\ \A j \in 1..(i - 1) : text[j] # lexeme
         IN SubSeq(text, 1, i - 1) \o SubSeq(text, i + 1, Len(text))

\* An error of the driver: code, message and detail, each of which may be
\* absent.
DriverError(hasCode, code, hasMessage, message, hasDetail, detail) ==
    [hasCode |-> hasCode, code |-> code, hasMessage |-> hasMessage,
     message |-> message, hasDetail |-> hasDetail, detail |-> detail]
NoDriverError == DriverError(FALSE, "", FALSE, <<>>, FALSE, <<>>)

\* What a call raises: nothing, the driver's error as it is, or a
\* DataStoresError with its code and options.
NothingThrown ==
    [query |-> <<>>, collectionName |-> "", code |-> "", thrown |-> "none",
     driver |-> NoDriverError, originalError |-> NoDriverError,
     suppliedName |-> <<>>, duplicateFields |-> <<>>, duplicateValues |-> <<>>,
     action |-> "", storeName |-> ""]
ThrowDriver(err) == [NothingThrown EXCEPT !.thrown = "driver", !.driver = err]
DataStoresError(code) == [NothingThrown EXCEPT !.thrown = "DataStoresError", !.code = code]

\* parseIndexViolatedForFieldsAndValues(input): the match of
\* /Key \((.*)\)=\((.*)\) already exists\./ at the leftmost start, both
\* groups greedy.
parseIndexViolatedForFieldsAndValues(hasInput, input) ==
    LET Positions == 1..Len(input)
        Ends(i) == {p \in Positions \X Positions :
                       /\ i < p[1] /\ p[1] < p[2]
                       /\ input[p[1]] = ")=("
                       /\ input[p[2]] = ") already exists."}
        starts == {i \in Positions : input[i] = "Key (" /\ Ends(i) # {}}
    IN IF ~hasInput \/ starts = {}
       THEN [values |-> <<>>, fields |-> <<>>, matched |-> FALSE]
       ELSE LET i == CHOOSE i \in starts : \A i2 \in starts : i <= i2
                j == CHOOSE j \in {p[1] : p \in Ends(i)} :
                         \A p \in Ends(i) : p[1] <= j
                k == CHOOSE k \in {p[2] : p \in Ends(i)} :
                         \A p \in Ends(i) : p[2] <= k
                fieldsStr == SubSeq(input, i + 1, j - 1)
                valuesStr == SubSeq(input, j + 1, k - 1)
                fields == SplitText(fieldsStr, ", ")
                values == SplitText(valuesStr, ", ")
                fixedFields ==
                    [n \in 1..Len(fields) |->
                        RemoveAll(
                            RemoveFirst(
                                SplitText(ReplaceAll(fields[n], " ->> ", "."), "::")[1],
                                "("),
                            "'")]
            IN [values |-> values, fields |-> fixedFields, matched |-> TRUE]

\* A variant of the catch of executeQuery that leaves the quotes of the
\* field names in.
executeQueryError_KeepQuotes(err, action, tableName) ==
    LET parsed == parseIndexViolatedForFieldsAndValues(err.hasDetail, err.detail)
    IN IF parsed.matched
       THEN [DataStoresError("DUPLICATE_RECORD") EXCEPT
                !.duplicateFields = parsed.fields,
                !.duplicateValues = parsed.values,
                !.collectionName = tableName,
                !.action = action]
       ELSE ThrowDriver(err)
\* The catch of executeQuery(action, sql, values, tableName).
executeQueryError(err, action, tableName) ==
    LET parsed == parseIndexViolatedForFieldsAndValues(err.hasDetail, err.detail)
    IN IF parsed.matched
       THEN [DataStoresError("DUPLICATE_RECORD") EXCEPT
                !.duplicateFields = [n \in 1..Len(parsed.fields) |->
                                        RemoveAll(parsed.fields[n], "\"")],
                !.duplicateValues = parsed.values,
                !.collectionName = tableName,
                !.action = action]
       ELSE ThrowDriver(err)

\* message.match(/"([^"]*)"/) ?? ['', '']: the text between the first two
\* quotes, nothing when there are no two quotes.
FirstQuoted(message) ==
    LET quotes == {i \in 1..Len(message) : message[i] = "\""}
    IN IF \A i, j \in quotes : i = j THEN <<>>
       ELSE LET i == CHOOSE i \in quotes : \A i2 \in quotes : i <= i2
                j == CHOOSE j \in quotes \ {i} : \A j2 \in quotes \ {i} : j <= j2
            IN SubSeq(message, i + 1, j - 1)

\* A variant of the catch of connect that looks for the missing database
\* before the refused connection.
connectError_NameFirst(err) ==
    IF err.hasMessage /\ Includes(err.message, " does not exist")
    THEN [DataStoresError("INVALID_DATABASE_NAME") EXCEPT
             !.suppliedName = FirstQuoted(err.message), !.originalError = err]
    ELSE IF (IF err.hasCode THEN err.code = "ECONNREFUSED"
             ELSE err.hasMessage /\ Includes(err.message, "ECONNREFUSED"))
    THEN [DataStoresError("UNABLE_TO_CONNECT_TO_DB") EXCEPT !.originalError = err]
    ELSE [DataStoresError("INVALID_DB_CONNECTION_STRING") EXCEPT !.originalError = err]
\* The catch of connect().
connectError(err) ==
    IF (IF err.hasCode THEN err.code = "ECONNREFUSED"
        ELSE err.hasMessage /\ Includes(err.message, "ECONNREFUSED"))
    THEN [DataStoresError("UNABLE_TO_CONNECT_TO_DB") EXCEPT !.originalError = err]
    ELSE IF err.hasMessage /\ Includes(err.message, " does not exist")
    THEN [DataStoresError("INVALID_DATABASE_NAME") EXCEPT
             !.suppliedName = FirstQuoted(err.message), !.originalError = err]
    ELSE [DataStoresError("INVALID_DB_CONNECTION_STRING") EXCEPT !.originalError = err]

\* The collection's table: its columns, the values the inputs use, and its
\* unique indexes (the primary key, one column, and a quoted column with a
\* JSON path).
Columns == {"id", "email", "firstName", "meta.tag"}
ColumnValues ==
    [c \in Columns |->
        CASE c = "id" -> {"1", "2"}
          [] c = "email" -> {"a@b.com", "c@d.com"}
          [] c = "firstName" -> {"Joe", "Ann"}
          [] c = "meta.tag" -> {"x", "y"}]
TableRows ==
    {r \in [Columns -> UNION {ColumnValues[c] : c \in Columns}] :
        \A c \in Columns : r[c] \in ColumnValues[c]}
UniqueKeys == {<<"id">>, <<"email">>, <<"firstName", "meta.tag">>}

\* The key expression of a field as the server prints it in a detail:
\* (meta ->> 'tag'::text) for the key expression (meta->>'tag'), the quoted
\* name for a name that is not lower case, the bare name otherwise.
KeyExpression(field) ==
    IF IncludesDot(field)
    THEN <<"(", SplitDot(field)[1], " ->> ", "'", SplitDot(field)[2], "'",
           "::", "text", ")">>
    ELSE IF toLowerCase(field) # field THEN <<"\"", field, "\"">>
    ELSE <<field>>

\* The errors of the driver for a failed statement.
UniqueViolation(key, values) ==
    DriverError(TRUE, "23505",
                TRUE, <<"duplicate key value violates unique constraint">>,
                TRUE, <<"Key (">>
                      \o Join([i \in 1..Len(key) |-> KeyExpression(key[i])], ", ")
                      \o <<")=(">>
                      \o Join([i \in 1..Len(values) |-> <<values[i]>>], ", ")
                      \o <<") already exists.">>)
NotNullViolation ==
    DriverError(TRUE, "23502",
                TRUE, <<"null value in column violates not-null constraint">>,
                TRUE, <<"Failing row contains (", "null", ").">>)
ForeignKeyViolation ==
    DriverError(TRUE, "23503",
                TRUE, <<"insert or update on table violates foreign key constraint">>,
                TRUE, <<"Key (", "email", ")=(", "a@b.com",
                        ") is not present in table ", "\"", "accounts", "\"", ".">>)
ConnectionLost ==
    DriverError(FALSE, "", TRUE, <<"Connection terminated unexpectedly">>, FALSE, <<>>)
Faults == {"none", "connection lost", "foreign key"}

\* A statement of the adapter, by what the builder was asked for.
Statement(kind, collection, query, updates, records, limit, returning) ==
    [query |-> query, limit |-> limit, updates |-> updates, records |-> records,
     collection |-> collection, kind |-> kind, returning |-> returning]
NoStatement == Statement("none", "", <<>>, <<>>, <<>>, 0, FALSE)

\* The answer of client.query: the result, or the error it rejects with.
Answer(failed, error, rows, rowCount) ==
    [rows |-> rows, error |-> error, failed |-> failed, rowCount |-> rowCount]

Matches(row, query) == \A k \in DOMAIN query : row[k] = query[k]
KeyValues(row, key) == [i \in 1..Len(key) |-> row[key[i]]]
\* A column without a value holds NULL, and two NULLs are no duplicates.
SqlNull == "NULL"
Duplicates(rows) ==
    {d \in UniqueKeys \X (1..Len(rows)) :
        /\ \A k \in 1..Len(d[1]) : rows[d[2]][d[1][k]] # SqlNull
        /\ \E i \in 1..(d[2] - 1) :
              KeyValues(rows[i], d[1]) = KeyValues(rows[d[2]], d[1])}

\* The server executes one statement on the rows of the table; `fault` is a
\* failure that does not come from the rows.  A statement that fails
\* changes nothing.
clientQuery(stmt, rows, fault) ==
    LET matched == SelectSeq(rows, LAMBDA r : Matches(r, stmt.query))
        updated(r) == [c \in Columns |-> IF c \in DOMAIN stmt.updates
                                         THEN stmt.updates[c] ELSE r[c]]
        after ==
            CASE stmt.kind = "UPDATE" ->
                    [i \in 1..Len(rows) |-> IF Matches(rows[i], stmt.query)
                                            THEN updated(rows[i]) ELSE rows[i]]
              [] stmt.kind = "INSERT" -> rows \o stmt.records
              [] OTHER -> rows
        fail(err) == [rows |-> rows, answer |-> Answer(TRUE, err, <<>>, 0)]
    IN IF fault = "connection lost" THEN fail(ConnectionLost)
       ELSE IF fault = "foreign key" /\ stmt.kind # "SELECT" THEN fail(ForeignKeyViolation)
       ELSE IF stmt.kind = "SELECT" THEN
           [rows |-> rows,
            answer |-> LET found == IF stmt.limit > 0 /\ Len(matched) > stmt.limit
                                    THEN SubSeq(matched, 1, stmt.limit) ELSE matched
                       IN Answer(FALSE, NoDriverError, found, Len(found))]
       ELSE IF stmt.kind = "INSERT"
               /\ \E i \in 1..Len(stmt.records) : DOMAIN stmt.records[i] # Columns
       THEN fail(NotNullViolation)
       ELSE IF Duplicates(after) # {}
       THEN LET d == CHOOSE d \in Duplicates(after) :
                         \A d2 \in Duplicates(after) : d[2] <= d2[2]
            IN fail(UniqueViolation(d[1], KeyValues(after[d[2]], d[1])))
       ELSE IF stmt.kind = "UPDATE" THEN
           [rows |-> after,
            answer |-> Answer(FALSE, NoDriverError,
                              IF stmt.returning
                              THEN SelectSeq(after, LAMBDA r :
                                       \E i \in 1..Len(rows) :
                                           /\ Matches(rows[i], stmt.query)
                                           /\ after[i] = r)
                              ELSE <<>>,
                              Len(matched))]
       ELSE [rows |-> after,
             answer |-> Answer(FALSE, NoDriverError, stmt.records, Len(stmt.records))]

\* The server executes a statement on a table whose id is filled by a
\* sequence (ALTER COLUMN id SET DEFAULT nextval(...)) and whose email and
\* meta are nullable: a record of an INSERT that gives no id gets the next
\* value, which is used up whether the statement succeeds or not, and a
\* nullable column that is not given is NULL.
NullableColumns == {"email", "meta.tag"}
serverQuery(stmt, rows, seq, fault) ==
    LET lacking == {i \in 1..Len(stmt.records) : "id" \notin DOMAIN stmt.records[i]}
        nextval(i) == ToString(seq + Cardinality({j \in lacking : j < i}))
        filled(i) ==
            [c \in DOMAIN stmt.records[i] \cup {"id"} \cup NullableColumns |->
                IF c \in DOMAIN stmt.records[i] THEN stmt.records[i][c]
                ELSE IF c = "id" THEN nextval(i) ELSE SqlNull]
        sent == IF stmt.kind = "INSERT"
                THEN [stmt EXCEPT !.records = [i \in 1..Len(stmt.records) |-> filled(i)]]
                ELSE stmt
        res == clientQuery(sent, rows, fault)
    IN [rows |-> res.rows, answer |-> res.answer,
        seq |-> IF stmt.kind = "INSERT" /\ fault # "connection lost"
                THEN seq + Cardinality(lacking) ELSE seq]

\* What a call returns: rows, one row (rows[0]) or a count.
Result(kind, rows, count) == [count |-> count, rows |-> rows, kind |-> kind]
NoResult == Result("none", <<>>, 0)
\* rows[0]: the first row, undefined (no row) when there is none.
FirstRow(rows) == IF rows = <<>> THEN <<>> ELSE <<rows[1]>>

\* A call of the adapter: the method, its arguments, the step it awaits,
\* the statements it has sent with their answers, and how it ended.
NoDbCall ==
    [pc |-> "idle", query |-> <<>>, op |-> "none", updates |-> <<>>,
     records |-> <<>>, collection |-> "", error |-> NothingThrown,
     action |-> "", step |-> "", target |-> <<>>,
     pending |-> NoStatement, statements |-> <<>>, answers |-> <<>>,
     returned |-> NoResult]

\* await this.client.query(...) / this.executeQuery(...): the statement is
\* sent and the call waits.
Send(c, step, stmt) ==
    [c EXCEPT !.pc = "awaiting", !.step = step, !.pending = stmt,
              !.statements = Append(@, stmt)]
Return(c, result) == [c EXCEPT !.pc = "returned", !.step = "", !.returned = result]
Throw(c, error) == [c EXCEPT !.pc = "raised", !.step = "", !.error = error]

\* update(collection, query, updates): queries.update(..., false)
updateMany(collection, query, updates) ==
    Send([NoDbCall EXCEPT !.op = "update", !.collection = collection,
                          !.query = query, !.updates = updates],
         "update", Statement("UPDATE", collection, query, updates, <<>>, 0, FALSE))
updateManyAfterQuery(c, answer) ==
    IF answer.failed THEN Throw(c, ThrowDriver(answer.error))
    ELSE Return(c, Result("count", <<>>, answer.rowCount))

\* executeUpdateAndThrowIfNoResults(collection, query, updates, action)
executeUpdateAndThrowIfNoResults(c, collection, query, updates, action) ==
    Send([c EXCEPT !.target = query, !.action = action],
         "executeUpdate", Statement("UPDATE", collection, query, updates, <<>>, 0, TRUE))
executeUpdateAfterQuery_NeverThrows(c, answer) ==
    IF answer.failed
    THEN Throw(c, executeQueryError(answer.error, c.action, c.collection))
    ELSE Return(c, Result("row", FirstRow(answer.rows), 0))
executeUpdateAfterQuery(c, answer) ==
    IF answer.failed
    THEN Throw(c, executeQueryError(answer.error, c.action, c.collection))
    ELSE IF answer.rowCount = 0
    THEN Throw(c, [DataStoresError("RECORD_NOT_FOUND") EXCEPT
                      !.storeName = c.collection, !.query = c.target])
    ELSE Return(c, Result("row", FirstRow(answer.rows), 0))

\* updateOne(collection, query, updates)
updateOne(collection, query, updates) ==
    executeUpdateAndThrowIfNoResults(
        [NoDbCall EXCEPT !.op = "updateOne", !.collection = collection,
                         !.query = query, !.updates = updates],
        collection, query, updates, "updateOne")

\* create(collection, records); createOne returns rows[0] of it.
createRecords(c, collection, records, one) ==
    IF Len(records) = 0 THEN Return(c, Result("rows", <<>>, 0))
    ELSE Send([c EXCEPT !.action = "create"],
              IF one THEN "createOne" ELSE "create",
              Statement("INSERT", collection, <<>>, <<>>, records, 0, TRUE))
createAfterQuery(c, answer) ==
    IF answer.failed
    THEN Throw(c, executeQueryError(answer.error, "create", c.collection))
    ELSE IF c.step = "createOne"
    THEN Return(c, Result("row", FirstRow(answer.rows), 0))
    ELSE Return(c, Result("rows", answer.rows, 0))

\* upsertOne(collection, query, updates): find(collection, query, {limit: 1})
upsertOne(collection, query, updates) ==
    Send([NoDbCall EXCEPT !.op = "upsertOne", !.collection = collection,
                          !.query = query, !.updates = updates],
         "find", Statement("SELECT", collection, query, <<>>, <<>>, 1, FALSE))
upsertOneAfterFind_ByQuery(c, answer) ==
    IF answer.failed THEN Throw(c, ThrowDriver(answer.error))
    ELSE IF Len(answer.rows) > 0
    THEN executeUpdateAndThrowIfNoResults(c, c.collection, c.query,
                                          c.updates, "upsertOne")
    ELSE createRecords(c, c.collection, <<c.updates>>, TRUE)
upsertOneAfterFind(c, answer) ==
    IF answer.failed THEN Throw(c, ThrowDriver(answer.error))
    ELSE IF Len(answer.rows) > 0
    THEN executeUpdateAndThrowIfNoResults(c, c.collection,
                                          "id" :> answer.rows[1]["id"],
                                          c.updates, "upsertOne")
    ELSE createRecords(c, c.collection, <<c.updates>>, TRUE)

\* The call goes on when the answer to its statement comes.
ResumeDb(c, answer) ==
    LET c1 == [c EXCEPT !.pending = NoStatement, !.answers = Append(@, answer)]
    IN CASE c.step = "update" -> updateManyAfterQuery(c1, answer)
         [] c.step = "executeUpdate" -> executeUpdateAfterQuery(c1, answer)
         [] c.step \in {"create", "createOne"} -> createAfterQuery(c1, answer)
         [] c.step = "find" -> upsertOneAfterFind(c1, answer)

\* generateId(): the id it returns and the counter after it.  randomUUID()
\* gives any UUID.
UUIDs == {"3f2c0a9e-6f1b-4c58-9d0e-1a2b3c4d5e6f", "b7e1d2c4-8a90-4f3e-a1b2-c3d4e5f60718"}
generateId_PreIncrement(format, count) ==
    IF format = "uuid"
    THEN {[idCount |-> count, id |-> u] : u \in UUIDs}
    ELSE {[idCount |-> count + 1, id |-> ToString(count + 1)]}
generateId(format, count) ==
    IF format = "uuid"
    THEN {[idCount |-> count, id |-> u] : u \in UUIDs}
    ELSE {[idCount |-> count + 1, id |-> ToString(count)]}

\* The concurrent callers of upsertOne, before their calls.
Callers == {"first", "second"}
NoCallers == [c \in Callers |-> NoDbCall]

\* The adapter before connect(), and the errors client.connect() rejects with.
NoClient == [error |-> NothingThrown, state |-> "new", rejected |-> NoDriverError]
ConnectErrors ==
    {DriverError(TRUE, "ECONNREFUSED", TRUE,
                 <<"connect ", "ECONNREFUSED", " 127.0.0.1:5432">>, FALSE, <<>>),
     DriverError(TRUE, "ECONNREFUSED", TRUE, <<>>, FALSE, <<>>),
     DriverError(FALSE, "", TRUE,
                 <<"connect ", "ECONNREFUSED", " ::1:5432">>, FALSE, <<>>),
     DriverError(FALSE, "", TRUE,
                 <<"connect ", "ECONNREFUSED", ": server", " does not exist">>,
                 FALSE, <<>>),
     DriverError(TRUE, "3D000", TRUE,
                 <<"database ", "\"", "nope", "\"", " does not exist">>, FALSE, <<>>),
     DriverError(TRUE, "3D000", TRUE,
                 <<"database ", "\"", "ECONNREFUSED", "\"", " does not exist">>,
                 FALSE, <<>>),
     DriverError(TRUE, "28000", TRUE,
                 <<"role ", "\"", "bob", "\"", " does not exist">>, FALSE, <<>>),
     DriverError(FALSE, "", TRUE, <<"the database", " does not exist">>, FALSE, <<>>),
     DriverError(TRUE, "28P01", TRUE,
                 <<"password authentication failed for user ", "\"", "bob", "\"">>,
                 FALSE, <<>>),
     DriverError(TRUE, "ENOTFOUND", TRUE,
                 <<"getaddrinfo ENOTFOUND nohost">>, FALSE, <<>>),
     DriverError(FALSE, "", FALSE, <<>>, FALSE, <<>>)}

----------------------------------------------------------------------------
(* The state machine: a caller flips the quoting toggle, calls one of the  *)
(* builder's operations and gets a Built Query, which it uses and drops    *)
(* before the next step (the builder is synchronous and keeps no state).   *)

NoQuery == [sql |-> <<>>, values |-> <<>>]
NoCall == [op |-> "none", tableName |-> "", query |-> EmptyDoc, options |-> NoOptions,
           updates |-> EmptyDoc, flag |-> FALSE, records |-> <<>>,
           index |-> IndexWithFilter(<<>>, Undefined)]

Init ==
    /\ quoteEnv = "unset"      \* as in the tests: the builder is made, then the toggle is set
    /\ pc = "idle"
    /\ call = NoCall
    /\ built = NoQuery
    /\ pgIndexes = {}
    /\ connection = <<>>
    /\ sync = NoSync
    /\ indexCall = NoIndexCall
    /\ nameVariant \in NameVariants
    /\ client = NoClient
    /\ table = <<>>
    /\ dbCall = NoDbCall
    /\ callers = NoCallers
    /\ idSeq = 1
    /\ tableAtStart = <<>>
    /\ idFormat = "unset"
    /\ idCount = 1
    /\ generated = <<>>

\* process.env.POSTGRES_SHOULD_QUOTE_FIELD_NAMES = v, or delete it.
SetQuoteEnv(v) ==
    /\ pc = "idle"
    /\ v # quoteEnv
    /\ quoteEnv' = v
    /\ UNCHANGED <<pc, call, built, indexVars, dbVars, idVars>>

\* The (query, options) pairs find is called with.
FindInputs == (QueryDocs \X {NoOptions}) \cup (OptionQueries \X OptionSets)

Find ==
    /\ pc = "idle"
    /\ \E tableName \in Tables, in \in FindInputs :
          /\ call' = [NoCall EXCEPT !.op = "find", !.tableName = tableName,
                                    !.query = in[1], !.options = in[2]]
          /\ built' = find(tableName, in[1], in[2])
    /\ pc' = "returned"
    /\ UNCHANGED <<quoteEnv, indexVars, dbVars, idVars>>

Delete ==
    /\ pc = "idle"
    /\ \E tableName \in Tables, query \in QueryDocs :
          /\ call' = [NoCall EXCEPT !.op = "delete", !.tableName = tableName,
                                    !.query = query]
          /\ built' = delete(tableName, query)
    /\ pc' = "returned"
    /\ UNCHANGED <<quoteEnv, indexVars, dbVars, idVars>>

Update ==
    /\ pc = "idle"
    /\ \E tableName \in Tables, query \in UpdateQueries, updates \in UpdateDocs,
          shouldReturnUpdatedRecords \in BOOLEAN :
          /\ call' = [NoCall EXCEPT !.op = "update", !.tableName = tableName,
                                    !.query = query, !.updates = updates,
                                    !.flag = shouldReturnUpdatedRecords]
          /\ built' = update(tableName, query, updates, shouldReturnUpdatedRecords)
    /\ pc' = "returned"
    /\ UNCHANGED <<quoteEnv, indexVars, dbVars, idVars>>

Create ==
    /\ pc = "idle"
    /\ \E tableName \in Tables, records \in RecordLists :
          /\ call' = [NoCall EXCEPT !.op = "create", !.tableName = tableName,
                                    !.records = records]
          /\ built' = create(tableName, records)
    /\ pc' = "returned"
    /\ UNCHANGED <<quoteEnv, indexVars, dbVars, idVars>>

\* The index descriptors createIndex is called with: one or two fields, a
\* JSON path among them, without a filter, with an empty one and with the
\* documents a query can be.
IndexFieldLists == {<<"name">>, <<"age", "name">>, <<"meta.tag">>}
IndexFilters == {Undefined, EmptyDoc} \cup FlatDocs \cup NullDocs \cup ClauseDocs

BuildCreateIndex ==
    /\ pc = "idle"
    /\ \E tableName \in Tables, fields \in IndexFieldLists, filter \in IndexFilters,
          isUnique \in BOOLEAN :
          /\ call' = [NoCall EXCEPT !.op = "createIndex", !.tableName = tableName,
                                    !.index = IndexWithFilter(fields, filter),
                                    !.flag = isUnique]
          /\ built' = createIndex(tableName, IndexWithFilter(fields, filter), isUnique)
    /\ pc' = "returned"
    /\ UNCHANGED <<quoteEnv, indexVars, dbVars, idVars>>

\* The caller has executed the Built Query and drops it.
Discard ==
    /\ pc = "returned"
    /\ pc' = "idle"
    /\ call' = NoCall
    /\ built' = NoQuery
    /\ UNCHANGED <<quoteEnv, indexVars, dbVars, idVars>>

Next ==
    \/ \E v \in {"unset", "true", "false"} : SetQuoteEnv(v)
    \/ Find
    \/ Delete
    \/ Update
    \/ Create
    \/ BuildCreateIndex
    \/ Discard

Spec == Init /\ [][Next]_vars

----------------------------------------------------------------------------
(* Index synchronisation: one adapter on one connection.  The statements   *)
(* of a phase are all sent before the first answer comes (Promise.all over *)
(* calls that each send their statement at once); the server executes them *)
(* in the order sent and each answer runs the handler that awaits it.      *)

\* executeSyncIndexes up to the first statement it sends: the indexes are
\* read and compared, and the removals are sent.
executeSyncIndexes_RemoveAll(rows, collectionName, indexes, isUnique, callNo) ==
    The({[NoSync EXCEPT
             !.pc = "removing", !.callNo = callNo,
             !.collectionName = collectionName, !.indexes = indexes,
             !.isUnique = isUnique,
             !.toAdd = pluckMissingIndexes(indexes, existingIndexes),
             !.toRemove = existingIndexes,
             !.issued = [i \in 1..Len(existingIndexes) |->
                            dropIndex(collectionName, existingIndexes[i])]]
         : existingIndexes \in {executeGetIndexes(rows, collectionName, isUnique)}})
executeSyncIndexes(rows, collectionName, indexes, isUnique, callNo) ==
    The({The({[NoSync EXCEPT
                  !.pc = "removing", !.callNo = callNo,
                  !.collectionName = collectionName, !.indexes = indexes,
                  !.isUnique = isUnique,
                  !.toAdd = pluckMissingIndexes(indexes, existingIndexes),
                  !.toRemove = indexesToRemove,
                  !.issued = [i \in 1..Len(indexesToRemove) |->
                                 dropIndex(collectionName, indexesToRemove[i])]]
              : indexesToRemove \in {pluckMissingIndexes(existingIndexes, indexes)}})
         : existingIndexes \in {executeGetIndexes(rows, collectionName, isUnique)}})

\* executeSyncIndexes after an await whose promises have all settled: when
\* the removals are done the additions are sent; when the additions are
\* done the call returns.
ResumeSync_AllSettled(s) ==
    IF s.pc = "removing" /\ s.answered = Len(s.toRemove) /\ s.toAdd # <<>>
    THEN [s EXCEPT !.pc = "adding",
                   !.issued = @ \o [i \in 1..Len(s.toAdd) |->
                                       executeCreateIndex(s.collectionName,
                                                          s.toAdd[i], s.isUnique)]]
    ELSE IF s.outcome # "none" THEN s
    ELSE IF s.answered = Len(s.issued)
    THEN [s EXCEPT !.pc = "done", !.outcome = "completed"]
    ELSE s
ResumeSync(s) ==
    IF s.outcome # "none" THEN s
    ELSE IF s.pc = "removing" /\ s.answered = Len(s.toRemove) THEN
        IF s.toAdd = <<>>
        THEN [s EXCEPT !.pc = "done", !.outcome = "completed"]
        ELSE [s EXCEPT !.pc = "adding",
                       !.issued = @ \o [i \in 1..Len(s.toAdd) |->
                                           executeCreateIndex(s.collectionName,
                                                              s.toAdd[i], s.isUnique)]]
    ELSE IF s.pc = "adding" /\ s.answered = Len(s.issued)
    THEN [s EXCEPT !.pc = "done", !.outcome = "completed"]
    ELSE s

\* The answer to one statement reaches the call: a failed removal raises
\* INDEX_NOT_FOUND, a failed addition raises DUPLICATE_KEY unless the index
\* exists; the first error raised rejects the call (Promise.all).
SettleSync(s, stmt, failure) ==
    LET err == IF stmt.kind = "DROP INDEX" THEN dropIndexError(failure)
               ELSE syncAdditionError(executeCreateIndexError(failure, stmt))
        s1 == [s EXCEPT !.answered = @ + 1,
                        !.failures = IF failure = "none" THEN @
                                     ELSE Append(@, [failure |-> failure,
                                                     statement |-> stmt])]
    IN IF err # "" /\ s.outcome = "none"
       THEN [s1 EXCEPT !.outcome = "raised", !.error = err]
       ELSE s1

\* The indexes the collection starts with.
InitialIndexes ==
    {[unique |-> FALSE, indexname |-> <<"users", "email", "index">>],
     [unique |-> TRUE, indexname |-> <<"users", "email", "index">>],
     [unique |-> FALSE, indexname |-> <<"users", "first", "name", "index">>],
     [unique |-> TRUE, indexname |-> <<"users", "slug", "index">>],
     [unique |-> FALSE, indexname |-> <<"users", "slug", "idx">>],
     [unique |-> TRUE, indexname |-> <<"users", "pk">>]}
InitialCatalogs ==
    {rows \in SUBSET InitialIndexes :
        \A r1, r2 \in rows : r1.indexname = r2.indexname => r1 = r2}

\* The desired indexes.
DesiredIndexes ==
    {Index(<<"email">>), Index(<<"firstName">>), Index(<<"first_name">>),
     Index(<<"first", "name">>), Index(<<"meta.tag">>), Index(<<"ghost">>)}
DesiredLists == SeqsOf(DesiredIndexes, 0, MaxDesired)

InitIndex ==
    /\ quoteEnv = "true"
    /\ pc = "idle"
    /\ call = NoCall
    /\ built = NoQuery
    /\ pgIndexes \in InitialCatalogs
    /\ connection = <<>>
    /\ sync = NoSync
    /\ indexCall = NoIndexCall
    /\ nameVariant \in NameVariants
    /\ client = NoClient
    /\ table = <<>>
    /\ dbCall = NoDbCall
    /\ callers = NoCallers
    /\ idSeq = 1
    /\ tableAtStart = <<>>
    /\ idFormat = "unset"
    /\ idCount = 1
    /\ generated = <<>>

StartSync(collectionName, indexes, isUnique, callNo) ==
    /\ sync' = ResumeSync(executeSyncIndexes(pgIndexes, collectionName, indexes,
                                             isUnique, callNo))
    /\ connection' = sync'.issued
    /\ UNCHANGED <<pgIndexes, indexCall, nameVariant, builderVars, dbVars, idVars>>

\* syncIndexes(collectionName, indexes)
SyncIndexes ==
    /\ sync.pc = "idle"
    /\ indexCall.pc = "idle"
    /\ \E indexes \in DesiredLists : StartSync("users", indexes, FALSE, 1)

\* syncUniqueIndexes(collectionName, indexes)
SyncUniqueIndexes ==
    /\ sync.pc = "idle"
    /\ indexCall.pc = "idle"
    /\ \E indexes \in DesiredLists : StartSync("users", indexes, TRUE, 1)

\* The call has completed without raising; the caller makes it again at
\* once with the same collection and the same list.
SyncAgain ==
    /\ sync.outcome = "completed"
    /\ connection = <<>>
    /\ sync.callNo < MaxSyncCalls
    /\ StartSync(sync.collectionName, sync.indexes, sync.isUnique, sync.callNo + 1)

\* The server executes the statement at the head of the connection and its
\* answer reaches the call.
Execute ==
    /\ connection # <<>>
    /\ indexCall.pc = "idle"
    /\ \E res \in {ExecuteStatement(Head(connection), pgIndexes)} :
          /\ pgIndexes' = res.rows
          /\ sync' = ResumeSync(SettleSync(sync, Head(connection), res.failure))
          /\ connection' = Tail(connection)
                           \o SubSeq(sync'.issued, Len(sync.issued) + 1, Len(sync'.issued))
    /\ UNCHANGED <<indexCall, nameVariant, builderVars, dbVars, idVars>>

\* A call of createIndex, createUniqueIndex or dropIndex sends its statement.
StartIndexCall(op, collection, index, isUnique, stmt) ==
    /\ sync.pc = "idle"
    /\ indexCall.pc = "idle"
    /\ connection = <<>>
    /\ indexCall' = [NoIndexCall EXCEPT !.pc = "sent", !.op = op,
                                        !.collectionName = collection,
                                        !.index = index, !.isUnique = isUnique]
    /\ connection' = <<stmt>>
    /\ UNCHANGED <<pgIndexes, sync, nameVariant, builderVars, dbVars, idVars>>

\* The indexes createIndex, createUniqueIndex and dropIndex are called with:
\* the desired ones, two lists of the same fields in two orders and a list
\* that differs from one of them in letter case only.
DirectIndexes ==
    DesiredIndexes \cup {Index(<<"email", "firstName">>), Index(<<"firstName", "email">>),
                         Index(<<"email", "firstname">>)}

\* createIndex(collection, fields)
CreateIndex ==
    \E index \in DirectIndexes :
        StartIndexCall("createIndex", "users", index, FALSE,
                       executeCreateIndex("users", index, FALSE))

\* createUniqueIndex(collection, fields)
CreateUniqueIndex ==
    \E index \in DirectIndexes :
        StartIndexCall("createUniqueIndex", "users", index, TRUE,
                       executeCreateIndex("users", index, TRUE))

\* dropIndex(collectionName, index)
DropIndex ==
    \E index \in DirectIndexes :
        StartIndexCall("dropIndex", "users", index, FALSE, dropIndex("users", index))

\* The server executes the statement of the call and the call returns or
\* raises.
ExecuteIndexCall ==
    /\ indexCall.pc = "sent"
    /\ connection # <<>>
    /\ \E res \in {ExecuteStatement(Head(connection), pgIndexes)} :
          /\ pgIndexes' = res.rows
          /\ indexCall' =
                [indexCall EXCEPT
                    !.pc = "returned",
                    !.failed = res.failure # "none",
                    !.message = PgMessage(res.failure, Head(connection)),
                    !.thrown =
                        IF indexCall.op = "dropIndex"
                        THEN dropIndexThrown(res.failure # "none",
                                             indexCall.collectionName, indexCall.index)
                        ELSE executeCreateIndexThrown(
                                 res.failure # "none",
                                 PgMessage(res.failure, Head(connection)),
                                 indexCall.collectionName, indexCall.index)]
    /\ connection' = Tail(connection)
    /\ UNCHANGED <<sync, nameVariant, builderVars, dbVars, idVars>>

\* The caller has taken what the call returned or raised.  (Every call is
\* followed from every initial catalog, and not again from the catalog a
\* call leaves.)
IndexCallReturn ==
    /\ indexCall.pc = "returned"
    /\ indexCall' = [NoIndexCall EXCEPT !.pc = "taken"]
    /\ UNCHANGED <<pgIndexes, connection, sync, nameVariant, builderVars, dbVars, idVars>>

NextIndex ==
    \/ SyncIndexes
    \/ SyncUniqueIndexes
    \/ SyncAgain
    \/ Execute
    \/ CreateIndex
    \/ CreateUniqueIndex
    \/ DropIndex
    \/ ExecuteIndexCall
    \/ IndexCallReturn

SpecIndex == InitIndex /\ [][NextIndex]_vars

----------------------------------------------------------------------------
(* The adapter's data operations on one connection: a caller connects,     *)
(* makes one call at a time and takes what it returns or raises; the       *)
(* server answers each statement the call sends.                           *)

QueriesDb ==
    {<<>>} \cup {"id" :> v : v \in ColumnValues["id"]}
           \cup {"email" :> v : v \in ColumnValues["email"]}
           \cup {"meta.tag" :> "x"}
Row(id, email, firstName, tag) ==
    ("id" :> id) @@ ("email" :> email) @@ ("firstName" :> firstName) @@ ("meta.tag" :> tag)
SomeRows ==
    {Row("1", "a@b.com", "Joe", "x"), Row("2", "c@d.com", "Ann", "y"),
     Row("2", "a@b.com", "Joe", "y"), Row("1", "c@d.com", "Joe", "x")}
NewRecords ==
    {Row("1", "a@b.com", "Joe", "x"), Row("2", "a@b.com", "Joe", "y"),
     "email" :> "c@d.com"}
UpdatesDb ==
    SomeRows \cup {"email" :> v : v \in ColumnValues["email"]}
             \cup {"firstName" :> v : v \in ColumnValues["firstName"]}
             \cup {"meta.tag" :> v : v \in ColumnValues["meta.tag"]}
InitialTables ==
    {rows \in SeqsOf(TableRows, 0, 2) : Duplicates(rows) = {}}

InitDb ==
    /\ quoteEnv = "true"
    /\ pc = "idle"
    /\ call = NoCall
    /\ built = NoQuery
    /\ pgIndexes = {}
    /\ connection = <<>>
    /\ sync = NoSync
    /\ indexCall = NoIndexCall
    /\ nameVariant = "lowerCase"
    /\ client = NoClient
    /\ table \in InitialTables
    /\ dbCall = NoDbCall
    /\ callers = NoCallers
    /\ idSeq = 1
    /\ tableAtStart = <<>>
    /\ idFormat = "unset"
    /\ idCount = 1
    /\ generated = <<>>

\* connect()
Connect ==
    /\ client.state # "connected"
    /\ \/ client' = [NoClient EXCEPT !.state = "connected"]
       \/ \E err \in ConnectErrors :
             client' = [error |-> connectError(err), state |-> "failed",
                        rejected |-> err]
    /\ UNCHANGED <<table, dbCall, callers, idSeq, tableAtStart, builderVars, indexVars,
                   idVars>>

StartDb(c) ==
    /\ client.state = "connected"
    /\ dbCall.pc = "idle"
    /\ dbCall' = c
    /\ UNCHANGED <<client, table, callers, idSeq, tableAtStart, builderVars, indexVars,
                   idVars>>

\* create(collection, records)
DbCreate ==
    \E records \in SeqsOf(NewRecords, 0, MaxBatch) :
        StartDb(createRecords([NoDbCall EXCEPT !.op = "create", !.collection = "users",
                                               !.records = records],
                              "users", records, FALSE))

\* update(collection, query, updates)
DbUpdate ==
    \E query \in QueriesDb, updates \in UpdatesDb :
        StartDb(updateMany("users", query, updates))

\* updateOne(collection, query, updates)
DbUpdateOne ==
    \E query \in QueriesDb, updates \in UpdatesDb :
        StartDb(updateOne("users", query, updates))

\* upsertOne(collection, query, updates)
DbUpsertOne ==
    \E query \in QueriesDb, updates \in UpdatesDb :
        StartDb(upsertOne("users", query, updates))

\* The server executes the statement the call awaits and the call goes on.
DbAnswer ==
    /\ dbCall.pc = "awaiting"
    /\ \E fault \in Faults :
          \E res \in {clientQuery(dbCall.pending, table, fault)} :
              /\ table' = res.rows
              /\ dbCall' = ResumeDb(dbCall, res.answer)
    /\ UNCHANGED <<client, callers, idSeq, tableAtStart, builderVars, indexVars, idVars>>

\* The caller takes what the call returned or raised.
DbReturn ==
    /\ dbCall.pc \in {"returned", "raised"}
    /\ dbCall' = NoDbCall
    /\ UNCHANGED <<client, table, callers, idSeq, tableAtStart, builderVars, indexVars,
                   idVars>>

NextDb ==
    \/ Connect
    \/ DbCreate
    \/ DbUpdate
    \/ DbUpdateOne
    \/ DbUpsertOne
    \/ DbAnswer
    \/ DbReturn

SpecDb == InitDb /\ [][NextDb]_vars

----------------------------------------------------------------------------
(* Concurrent callers of upsertOne on one connected adapter.  The client   *)
(* has one connection: it queues the statements in the order they are sent *)
(* and the server executes them one at a time; when the answer to a        *)
(* caller's statement comes, the caller goes on and may send its next      *)
(* statement, which queues behind what the others have sent.               *)

UpsertQueries == {"firstName" :> "Joe", "meta.tag" :> "x", "email" :> "a@b.com"}
UpsertUpdates ==
    {"firstName" :> "Joe",
     ("firstName" :> "Joe") @@ ("meta.tag" :> "x"),
     ("firstName" :> "Joe") @@ ("email" :> "a@b.com"),
     Row("2", "a@b.com", "Joe", "x")}
UpsertTables ==
    {<<>>, <<Row("1", "c@d.com", "Ann", "y")>>, <<Row("2", "a@b.com", "Joe", "x")>>}

InitUpsert ==
    /\ quoteEnv = "true"
    /\ pc = "idle"
    /\ call = NoCall
    /\ built = NoQuery
    /\ pgIndexes = {}
    /\ connection = <<>>
    /\ sync = NoSync
    /\ indexCall = NoIndexCall
    /\ nameVariant = "lowerCase"
    /\ client = [NoClient EXCEPT !.state = "connected"]
    /\ table \in UpsertTables
    /\ dbCall = NoDbCall
    /\ callers = NoCallers
    /\ idSeq = 1
    /\ tableAtStart = table
    /\ idFormat = "unset"
    /\ idCount = 1
    /\ generated = <<>>

\* A caller calls upsertOne(collection, query, updates): its find is queued.
UpsertCall(c) ==
    /\ callers[c].pc = "idle"
    /\ \E query \in UpsertQueries, updates \in UpsertUpdates :
          /\ callers' = [callers EXCEPT ![c] = upsertOne("users", query, updates)]
          /\ connection' = Append(connection,
                                  [caller |-> c, statement |-> callers'[c].pending])
    /\ UNCHANGED <<client, table, dbCall, idSeq, tableAtStart, builderVars,
                   pgIndexes, sync, indexCall, nameVariant, idVars>>

\* The server executes the statement at the head of the queue; the caller
\* that awaits it goes on and queues its next statement, if it sends one.
UpsertAnswer ==
    /\ connection # <<>>
    /\ \E fault \in Faults :
          \E res \in {serverQuery(Head(connection).statement, table, idSeq, fault)} :
              LET c == Head(connection).caller
                  next == ResumeDb(callers[c], res.answer)
              IN /\ table' = res.rows
                 /\ idSeq' = res.seq
                 /\ callers' = [callers EXCEPT ![c] = next]
                 /\ connection' =
                        IF next.pc = "awaiting"
                        THEN Append(Tail(connection),
                                    [caller |-> c, statement |-> next.pending])
                        ELSE Tail(connection)
    /\ UNCHANGED <<client, dbCall, tableAtStart, builderVars, pgIndexes, sync,
                   indexCall, nameVariant, idVars>>

NextUpsert ==
    \/ \E c \in Callers : UpsertCall(c)
    \/ UpsertAnswer

SpecUpsert == InitUpsert /\ [][NextUpsert]_vars

----------------------------------------------------------------------------
(* Ids: one adapter instance, the environment's id format and the calls    *)
(* of generateId, each of which is recorded with the format it saw.        *)

IdFormats == {"unset", "uuid", "number"}

InitId ==
    /\ quoteEnv = "true"
    /\ pc = "idle"
    /\ call = NoCall
    /\ built = NoQuery
    /\ pgIndexes = {}
    /\ connection = <<>>
    /\ sync = NoSync
    /\ indexCall = NoIndexCall
    /\ nameVariant = "lowerCase"
    /\ client = NoClient
    /\ table = <<>>
    /\ dbCall = NoDbCall
    /\ callers = NoCallers
    /\ idSeq = 1
    /\ tableAtStart = <<>>
    /\ idFormat \in IdFormats
    /\ idCount = 1
    /\ generated = <<>>

\* process.env.POSTGRES_ID_FORMAT = v
SetIdFormat ==
    /\ \E v \in IdFormats \ {idFormat} : idFormat' = v
    /\ UNCHANGED <<idCount, generated, builderVars, indexVars, dbVars>>

\* generateId()
GenerateId ==
    /\ Len(generated) < MaxIds
    /\ \E res \in generateId(idFormat, idCount) :
          /\ idCount' = res.idCount
          /\ generated' = Append(generated, [id |-> res.id, format |-> idFormat])
    /\ UNCHANGED <<idFormat, builderVars, indexVars, dbVars>>

NextId ==
    \/ SetIdFormat
    \/ GenerateId

SpecId == InitId /\ [][NextId]_vars

----------------------------------------------------------------------------
(* Reading a Built Query back: what the properties below say about the     *)
(* emitted SQL is said through these.                                      *)

\* Placeholder numbers never exceed this for the bounded inputs.
PlaceholderLimit == 4 * (MaxKeys + 2) * (MaxOr + 1) * (MaxRecords + 1)
PlaceholderLexemes == {Placeholder(n) : n \in 1..PlaceholderLimit}
PlaceholderNumber ==
    [lexeme \in PlaceholderLexemes |->
        CHOOSE n \in 1..PlaceholderLimit : Placeholder(n) = lexeme]

\* The numbers of the placeholders of a piece of SQL, in textual order.
RECURSIVE PlaceholderSeq(_)
PlaceholderSeq(sql) ==
    IF sql = <<>> THEN <<>>
    ELSE (IF Head(sql) \in PlaceholderLexemes
          THEN <<PlaceholderNumber[Head(sql)]>> ELSE <<>>)
         \o PlaceholderSeq(Tail(sql))

Range(f) == {f[i] : i \in DOMAIN f}
UpTo(n) == [i \in 1..n |-> i]
Has(sql, lexeme) == \E i \in 1..Len(sql) : sql[i] = lexeme
IndexOf(sql, lexeme) == CHOOSE i \in 1..Len(sql) : sql[i] = lexeme /\
                                \A j \in 1..(i - 1) : sql[j] # lexeme

\* The lexemes after the first `lexeme`, up to the first of `stops` or the end.
After(sql, lexeme, stops) ==
    IF ~Has(sql, lexeme) THEN <<>>
    ELSE LET from == IndexOf(sql, lexeme) + 1
             ends == {i \in from..Len(sql) : sql[i] \in stops}
             to == IF ends = {} THEN Len(sql)
                   ELSE (CHOOSE i \in ends : \A j \in ends : i <= j) - 1
         IN SubSeq(sql, from, to)

ClauseStops == {"OFFSET", "ORDER BY", "LIMIT", "RETURNING"}
WherePart(sql) == After(sql, "WHERE", ClauseStops)
SetPart(sql) == After(sql, "SET", ClauseStops \cup {"WHERE"})

\* The pieces of `sql` between the occurrences of `sep`.
RECURSIVE Split(_, _)
Split(sql, sep) ==
    IF ~Has(sql, sep) THEN <<sql>>
    ELSE <<SubSeq(sql, 1, IndexOf(sql, sep) - 1)>>
         \o Split(SubSeq(sql, IndexOf(sql, sep) + 1, Len(sql)), sep)

\* How a column or table name is written under the toggle of the call.
Ident(name) == conditionalQuote(<<name>>)

Returned(ops) == pc = "returned" /\ call.op \in ops

----------------------------------------------------------------------------
(* C1: in every Built Query of find, update and delete the placeholder     *)
(* numbers that appear in sql are exactly 1..len(values): none is skipped  *)
(* and none is used for two positions of values.  Every placeholder the    *)
(* builder emits binds one value, so a number that is reused or skipped    *)
(* shows as a set of numbers other than 1..len(values).                    *)
C1_PlaceholdersAreOneToLen ==
    Returned({"find", "update", "delete"}) =>
        Range(PlaceholderSeq(built.sql)) = 1..Len(built.values)

----------------------------------------------------------------------------
\* A flat equality document: plain field names with literal values.
IsFlatEquality(query) ==
    \A i \in 1..Len(query.keys) :
        /\ query.keys[i] \in PlainFields
        /\ query.elems[i] \in Lits \cup Composites

(* C2: for a flat equality document of n keys passed to find or delete:    *)
(* n = 0 gives no WHERE and no values; n > 0 gives one WHERE whose         *)
(* clauses `key = $i` are joined by AND in key order, with placeholders    *)
(* $1..$n and values[i] the normalized value of key i.                     *)
C2_FlatEqualityWhere ==
    (Returned({"find", "delete"}) /\ IsFlatEquality(call.query)) =>
        LET n == Len(call.query.keys)
        IN /\ n = 0 => ~Has(built.sql, "WHERE") /\ built.values = <<>>
           /\ n > 0 =>
                /\ Len(SelectSeq(built.sql, LAMBDA x : x = "WHERE")) = 1
                /\ WherePart(built.sql) =
                       Join([i \in 1..n |->
                                Ident(call.query.keys[i]) \o <<"=", Placeholder(i)>>],
                            "AND")
           /\ PlaceholderSeq(built.sql) = UpTo(n)
           /\ built.values = [i \in 1..n |-> normalizeValue(call.query.elems[i])]

C2_Witness ==
    /\ Returned({"delete"})
    /\ IsFlatEquality(call.query)
    /\ Len(call.query.keys) = 2
    /\ Len(built.values) = 2
    /\ Has(built.sql, "AND")

----------------------------------------------------------------------------
\* The keys of the records from record r on that are not yet in `seen`.
RECURSIVE FirstAppearance(_, _, _)
FirstAppearance(records, r, seen) ==
    IF r > Len(records) THEN seen
    ELSE LET new == SelectSeq(records[r].keys,
                              LAMBDA k : \A i \in 1..Len(seen) : seen[i] # k)
         IN FirstAppearance(records, r + 1, seen \o new)

WithoutCasts(sql) == SelectSeq(sql, LAMBDA x : x # "::json")

(* C10: create emits the union of the records' keys in order of first      *)
(* appearance as its column list, one VALUES row per record in input       *)
(* order, one placeholder per (record, field) cell numbered 1..R*F in      *)
(* row-major order, and values[(r*F)+c] is the normalized value of field c *)
(* of record r, null when the record lacks the field.                      *)
C10_CreateRowMajor ==
    Returned({"create"}) =>
        LET records == call.records
            R == Len(records)
            columns == FirstAppearance(records, 1, <<>>)
            F == Len(columns)
            row(r) == <<"(">> \o Join([c \in 1..F |-> <<Placeholder((r - 1) * F + c)>>], ",")
                      \o <<")">>
        IN /\ WithoutCasts(built.sql) =
                  <<"INSERT INTO">> \o Ident(call.tableName) \o <<"(">>
                  \o Join([c \in 1..F |-> Ident(columns[c])], ",")
                  \o <<")", "VALUES">> \o Join([r \in 1..R |-> row(r)], ",")
                  \o <<"RETURNING", "*">>
           /\ Len(built.values) = R * F
           /\ \A r \in 1..R, c \in 1..F :
                  built.values[(r - 1) * F + c] =
                      IF \E i \in 1..Len(records[r].keys) : records[r].keys[i] = columns[c]
                      THEN normalizeValue(Get(records[r], columns[c]))
                      ELSE Null

C10_Witness ==
    /\ Returned({"create"})
    /\ Len(call.records) = 2
    /\ call.records[1].keys = <<"firstName">>
    /\ call.records[2].keys = <<"names", "firstName">>
    /\ Len(built.values) = 4
    /\ built.values[2] = Null

----------------------------------------------------------------------------
\* The SQL operator of a tag that binds one value.
OperatorOf ==
    [tag \in {"$regex", "$lte", "$lt", "$gte", "$gt", "$ne"} |->
        CASE tag = "$regex" -> "~*"
          [] tag = "$lte" -> "<="
          [] tag = "$lt" -> "<"
          [] tag = "$gte" -> ">="
          [] tag = "$gt" -> ">"
          [] tag = "$ne" -> "!="]

\* A query of one plain field whose value is an operator clause.
IsOneClause(query) ==
    /\ Len(query.keys) = 1
    /\ query.keys[1] \in PlainFields
    /\ query.elems[1].t = "object"
    /\ Len(query.elems[1].keys) >= 1
    /\ \A i \in 1..Len(query.elems[1].keys) : query.elems[1].keys[i] \in TagSet

(* C3: a field whose value is an operator clause carrying one of $lte,     *)
(* $lt, $gte, $gt with any literal comparison value (0, the empty string   *)
(* and booleans included) gives the WHERE clause `field <op> $n` with the  *)
(* matching operator and exactly one placeholder bound to the normalized   *)
(* comparison value, never an equality against the serialized clause.      *)
C3_ComparisonClause ==
    (/\ Returned({"find", "delete"})
     /\ IsOneClause(call.query)
     /\ Len(call.query.elems[1].keys) = 1
     /\ call.query.elems[1].keys[1] \in CompareTags
     /\ call.query.elems[1].elems[1] \in Lits) =>
        LET k == call.query.keys[1]
            tag == call.query.elems[1].keys[1]
            v == call.query.elems[1].elems[1]
        IN /\ WherePart(built.sql) = Ident(k) \o <<OperatorOf[tag], Placeholder(1)>>
           /\ built.values = <<normalizeValue(v)>>

----------------------------------------------------------------------------
\* The clause of field k for the honored tag with value v, as the first
\* clause of a WHERE: its SQL and the values it binds.
HonoredClause(k, tag, v) ==
    CASE tag = "$in" ->
            [sql |-> Ident(k) \o <<"IN", "(">>
                     \o Join([i \in 1..Len(v.elems) |-> <<Placeholder(i)>>], ",")
                     \o <<")">>,
             values |-> [i \in 1..Len(v.elems) |-> normalizeValue(v.elems[i])]]
      [] tag \in {"$exists", "$type"} \/ (tag = "$ne" /\ v = Null) ->
            [sql |-> Ident(k) \o <<"IS NOT NULL">>, values |-> <<>>]
      [] OTHER ->
            [sql |-> Ident(k) \o <<OperatorOf[tag], Placeholder(1)>>,
             values |-> <<normalizeValue(v)>>]

\* The place of a tag in the order in which the tags are tested.
TagRank(tag) == CHOOSE i \in 1..Len(Tags) : Tags[i] = tag

\* The tag of the clause that comes first in that order.
FirstPresent(clause) ==
    CHOOSE tag \in Range(clause.keys) :
        \A other \in Range(clause.keys) : TagRank(tag) <= TagRank(other)

(* C4: when an operator clause carries several tags, exactly one tag is    *)
(* honored: the first one present in the order $in, $exists/$type, $regex, *)
(* $lte, $lt, $gte, $gt, $ne, whatever the values of the tags; the other   *)
(* tags contribute no clause, no placeholder and no bound value.           *)
C4_FirstPresentTagHonored ==
    (/\ Returned({"find", "delete"})
     /\ IsOneClause(call.query)
     /\ Len(call.query.elems[1].keys) = 2
     /\ Get(call.query.elems[1], "$type") \in {Undefined, Str("string")}
     /\ Get(call.query.elems[1], "$exists") \in {Undefined, Bool("true")}) =>
        LET k == call.query.keys[1]
            clause == call.query.elems[1]
            tag == FirstPresent(clause)
            honored == HonoredClause(k, tag, Get(clause, tag))
        IN /\ WherePart(built.sql) = honored.sql
           /\ built.values = honored.values

----------------------------------------------------------------------------
(* C5: each clause kind consumes a fixed number of placeholders: $in with  *)
(* m >= 0 elements gives an IN list of m consecutive placeholders bound to *)
(* the m normalized elements in order; $ne null gives `field IS NOT NULL`  *)
(* and no placeholder; $ne with a non-null value gives `field != $n` and   *)
(* one placeholder; $exists and $type 'string' give `field IS NOT NULL`    *)
(* and no placeholder.                                                     *)
C5_PlaceholdersPerClauseKind ==
    (/\ Returned({"find", "delete"})
     /\ IsOneClause(call.query)
     /\ Len(call.query.elems[1].keys) = 1
     /\ \/ call.query.elems[1].keys[1] \in {"$in", "$ne", "$exists"}
        \/ call.query.elems[1] = Obj(<<"$type">>, <<Str("string")>>)) =>
        LET k == call.query.keys[1]
            tag == call.query.elems[1].keys[1]
            honored == HonoredClause(k, tag, call.query.elems[1].elems[1])
        IN /\ WherePart(built.sql) = honored.sql
           /\ PlaceholderSeq(built.sql) = UpTo(Len(honored.values))
           /\ built.values = honored.values

----------------------------------------------------------------------------
\* Rows of a table with the columns of OrFields, and what a predicate made
\* of `column = $n` and `column IS NULL` atoms under AND and OR says of one.
Rows == [OrFields -> {Str("Joe"), Str("Bob"), Null}]

ColumnOf(lexeme) == CHOOSE f \in OrFields : Ident(f) = <<lexeme>>

\* One atom on a row; a comparison with NULL, or with a placeholder that no
\* value is bound to, selects no row.
AtomHolds(atom, values, row) ==
    IF Len(atom) = 2 /\ atom[2] = "IS NULL" THEN row[ColumnOf(atom[1])] = Null
    ELSE /\ Len(atom) = 3 /\ atom[2] = "=" /\ atom[3] \in PlaceholderLexemes
         /\ PlaceholderNumber[atom[3]] <= Len(values)
         /\ row[ColumnOf(atom[1])] # Null
         /\ row[ColumnOf(atom[1])] = values[PlaceholderNumber[atom[3]]]

\* AND binds tighter than OR, so a predicate whose groups are not nested
\* is the OR of its AND-runs.
PredicateHolds(sql, values, row) ==
    LET flat == SelectSeq(sql, LAMBDA x : x \notin {"(", ")"})
        ors == Split(flat, "OR")
    IN \E i \in 1..Len(ors) :
           \A atom \in Range(Split(ors[i], "AND")) : AtomHolds(atom, values, row)

\* A row satisfies every clause of the sub-document.
SubDocumentHolds(doc, row) ==
    \A i \in 1..Len(doc.keys) :
        IF doc.elems[i] = Null THEN row[doc.keys[i]] = Null
        ELSE row[doc.keys[i]] = normalizeValue(doc.elems[i])

IsEqualityOr(query) ==
    /\ query.keys = <<"$or">>
    /\ \A i \in 1..Len(query.elems[1].elems) :
           LET doc == query.elems[1].elems[i]
           IN \A j \in 1..Len(doc.keys) :
                  doc.keys[j] \in OrFields /\ doc.elems[j] \in {Str("Joe"), Null}

(* C6: for a query {$or: [D1..Dk]} the emitted predicate is one            *)
(* parenthesised group that is the OR over the sub-documents of the AND of *)
(* each sub-document's own clauses: a row satisfies the group iff it       *)
(* satisfies every clause of at least one Di, also when a sub-document has *)
(* more than one key.                                                      *)
C6_OrOfAnds ==
    (Returned({"find", "delete"}) /\ IsEqualityOr(call.query)) =>
        LET where == WherePart(built.sql)
            docs == call.query.elems[1].elems
        IN /\ Len(where) >= 2 /\ Head(where) = "(" /\ where[Len(where)] = ")"
           /\ \A row \in Rows :
                  PredicateHolds(where, built.values, row)
                      <=> \E i \in 1..Len(docs) : SubDocumentHolds(docs[i], row)

----------------------------------------------------------------------------
(* C7: update returns values equal to the SET bound values in updates key  *)
(* order followed by the WHERE bound values in query key order; the SET    *)
(* placeholders are $1..$s and the WHERE placeholders $(s+1)..$(s+w), for  *)
(* s and w the numbers of SET and WHERE bound values; the WHERE clause is  *)
(* absent when query is empty; the SQL ends with RETURNING * iff the flag  *)
(* is true.                                                                *)
C7_UpdateSetThenWhere ==
    Returned({"update"}) =>
        LET setValues == buildEqualityClause(
                             EqualityOptions(call.updates, 0, DefaultTemplate,
                                             FALSE, FALSE)).values
            whereValues == optionallyBuildWhere(call.query, 0).values
            s == Len(setValues)
            w == Len(whereValues)
            n == Len(built.sql)
        IN /\ built.values = setValues \o whereValues
           /\ PlaceholderSeq(SetPart(built.sql)) = UpTo(s)
           /\ PlaceholderSeq(WherePart(built.sql)) = [i \in 1..w |-> s + i]
           /\ call.query.keys = <<>> => ~Has(built.sql, "WHERE")
           /\ call.flag <=> (n >= 2 /\ SubSeq(built.sql, n - 1, n) = <<"RETURNING", "*">>)

----------------------------------------------------------------------------
\* `sub` occurs in `sql` as a run of consecutive lexemes.
Contains(sql, sub) ==
    \E i \in 0..(Len(sql) - Len(sub)) : SubSeq(sql, i + 1, i + Len(sub)) = sub

\* Updates whose keys are plain field names (no $push, no dotted key).
IsFlatUpdate(updates) ==
    \A i \in 1..Len(updates.keys) : updates.keys[i] \in PlainFields

(* C8: in update the SET part has null-matching disabled: every key of     *)
(* updates whose value is null or undefined gives an assignment            *)
(* `field = $n` with null bound at that position, and SET never holds an   *)
(* `IS NULL` predicate.  In a WHERE clause (find, delete, the query of     *)
(* update) a null value gives `field IS NULL` and consumes no placeholder. *)
C8_NullInSetAndWhere ==
    /\ (Returned({"update"}) /\ IsFlatUpdate(call.updates)) =>
          /\ ~Has(SetPart(built.sql), "IS NULL")
          /\ \A i \in 1..Len(call.updates.keys) :
                 call.updates.elems[i] \in {Null, Undefined} =>
                     /\ Contains(SetPart(built.sql),
                                 Ident(call.updates.keys[i]) \o <<"=", Placeholder(i)>>)
                     /\ Len(built.values) >= i
                     /\ built.values[i] = Null
    /\ (Returned({"find", "delete", "update"})
        /\ Len(call.query.keys) = 1 /\ call.query.elems[1] = Null) =>
          /\ WherePart(built.sql) = Ident(call.query.keys[1]) \o <<"IS NULL">>
          /\ PlaceholderSeq(WherePart(built.sql)) = <<>>

----------------------------------------------------------------------------
(* C9: update with updates {$push: {f1: v1, ..., fk: vk}} and a one-key    *)
(* query allocates one placeholder per pushed field, numbered 1..k in      *)
(* field order; the SET expression of each pushed field is the template in *)
(* which that field's placeholder occurs twice (the value coalesced with   *)
(* and the value appended); the WHERE key uses placeholder k+1; values are *)
(* the k normalized pushed values followed by the query value.             *)
C9_PushPlaceholders ==
    (/\ Returned({"update"})
     /\ call.updates.keys = <<"$push">>
     /\ Len(call.query.keys) = 1
     /\ call.query.elems[1].t = "string") =>
        LET pushed == call.updates.elems[1]
            k == Len(pushed.keys)
            segments == Split(SetPart(built.sql), ",")
        IN /\ Len(segments) = k
           /\ \A i \in 1..k :
                  /\ SubSeq(segments[i], 1, 2) = Ident(pushed.keys[i]) \o <<"=">>
                  /\ PlaceholderSeq(segments[i]) = <<i, i>>
           /\ WherePart(built.sql) = Ident(call.query.keys[1]) \o <<"=", Placeholder(k + 1)>>
           /\ built.values = [i \in 1..k |-> normalizeValue(pushed.elems[i])]
                             \o <<normalizeValue(call.query.elems[1])>>

----------------------------------------------------------------------------
\* The keywords that open the parts of a SELECT, in the order of the contract.
FindKeywords == <<"SELECT", "FROM", "WHERE", "OFFSET", "ORDER BY", "LIMIT">>

Count(sql, lexeme) == Len(SelectSeq(sql, LAMBDA x : x = lexeme))

(* C11: find emits its parts in the fixed order SELECT columns FROM table, *)
(* WHERE, OFFSET, ORDER BY, LIMIT; each optional part is present iff its   *)
(* option (for WHERE: a non-empty query) is given; a skip or limit of 0 is *)
(* still emitted as OFFSET 0 / LIMIT 0; options add no bound value: every  *)
(* placeholder is inside the WHERE part and binds one value.               *)
C11_FindPartsInOrder ==
    Returned({"find"}) =>
        LET sql == built.sql
            o == call.options
            present == SelectSeq(FindKeywords, LAMBDA kw : Has(sql, kw))
        IN /\ \A i \in 1..Len(FindKeywords) : Count(sql, FindKeywords[i]) <= 1
           /\ Head(sql) = "SELECT" /\ Has(sql, "FROM")
           /\ After(sql, "FROM", {"WHERE"} \cup ClauseStops) = Ident(call.tableName)
           /\ \A i, j \in 1..Len(present) :
                  i < j => IndexOf(sql, present[i]) < IndexOf(sql, present[j])
           /\ Has(sql, "WHERE") <=> call.query.keys # <<>>
           /\ Has(sql, "OFFSET") <=> o.skip.t = "number"
           /\ Has(sql, "ORDER BY") <=> o.hasSort
           /\ Has(sql, "LIMIT") <=> o.limit.t = "number"
           /\ o.skip.t = "number" => After(sql, "OFFSET", ClauseStops) = <<o.skip.s>>
           /\ o.limit.t = "number" => After(sql, "LIMIT", ClauseStops) = <<o.limit.s>>
           /\ PlaceholderSeq(sql) = PlaceholderSeq(WherePart(sql))
           /\ Len(built.values) = Len(PlaceholderSeq(sql))
           /\ built.values = find(call.tableName, call.query, NoOptions).values

C11_Witness ==
    /\ Returned({"find"})
    /\ call.query.keys = <<"name">>
    /\ call.options.skip = Num("0")
    /\ call.options.hasSort
    /\ call.options.limit = Num("10")
    /\ Contains(built.sql, <<"OFFSET", "0", "ORDER BY">>)
    /\ built.values = <<Str("Joe")>>

----------------------------------------------------------------------------
(* C12: for a key of the form a.b used in a WHERE clause (find, delete,    *)
(* the query of update), whatever the kind of its value (a literal or an   *)
(* operator clause), the left side of the emitted clause is the JSON text  *)
(* extraction `a ->> 'b'` and every value the clause binds is text.        *)
C12_DotKeyExtractsText ==
    (/\ Returned({"find", "delete", "update"})
     /\ Len(call.query.keys) = 1
     /\ IncludesDot(call.query.keys[1])
     /\ call.query.elems[1].t \notin {"null", "undefined"}) =>
        LET parts == SplitDot(call.query.keys[1])
            where == WherePart(built.sql)
            whereValues == optionallyBuildWhere(call.query, 0).values
        IN /\ Len(where) >= 3
           /\ SubSeq(where, 1, 3) = <<parts[1], "->>", "'" \o parts[2] \o "'">>
           /\ \A i \in 1..Len(whereValues) : whereValues[i].t = "string"

----------------------------------------------------------------------------
\* The table and column names the calls are made with, and the columns of
\* their dotted keys.
IdentifierNames ==
    Tables \cup Fields \cup OrFields \cup PushFields \cup CreateFields
    \cup {"id"} \cup {DotParts[k][1] : k \in DOMAIN DotParts}

Quoted(name) == "\"" \o name \o "\""

\* No key of the call's documents is a dotted key.
NoDottedKey ==
    /\ \A i \in 1..Len(call.query.keys) : ~IncludesDot(call.query.keys[i])
    /\ \A i \in 1..Len(call.updates.keys) : ~IncludesDot(call.updates.keys[i])

(* C13: when the quoting toggle is not 'true', find (with or without       *)
(* includeFields and sort), create, update and delete emit every table and *)
(* column identifier bare: no identifier of the SQL is wrapped in double   *)
(* quotes.  When the toggle is 'true', every table and column identifier   *)
(* without a space is wrapped in double quotes and an identifier with a    *)
(* space is emitted unquoted.                                              *)
C13_QuotingFollowsToggle ==
    Returned({"find", "create", "update", "delete"}) =>
        /\ quoteEnv # "true" =>
              \A name \in IdentifierNames : ~Has(built.sql, Quoted(name))
        /\ (quoteEnv = "true" /\ NoDottedKey) =>
              \A name \in IdentifierNames :
                  IF IncludesSpace(<<name>>)
                  THEN ~Has(built.sql, Quoted(name))
                  ELSE ~Has(built.sql, name)

----------------------------------------------------------------------------
(* C14: index synchronisation is idempotent: whatever indexes are present  *)
(* at first and whatever the desired list (dotted fields, mixed-case       *)
(* fields, fields with underscores, entries that share a canonical name),  *)
(* when syncIndexes / syncUniqueIndexes completes without raising, the     *)
(* call made again at once with the same collection and list sends no      *)
(* CREATE INDEX and no DROP INDEX statement.                               *)
C14_SyncIdempotent ==
    sync.callNo >= 2 => sync.issued = <<>>

\* The additions of the call in progress, as the statements they send.
Additions ==
    [i \in 1..Len(sync.toAdd) |->
        executeCreateIndex(sync.collectionName, sync.toAdd[i], sync.isUnique)]

AlreadyExists == {i \in 1..Len(sync.failures) : sync.failures[i].failure = "already exists"}

\* C15: an addition that fails because the index already exists does not
\* make the synchronisation raise: a call raises only when some statement
\* failed otherwise, and a call all of whose failures are 'already exists'
\* completes once its statements are answered.  From the moment the
\* additions start every addition of the call has been sent, one CREATE
\* INDEX each and in order, and when the connection is drained every one
\* has been answered, whatever happened to the others.
C15_ExistsCollisionSwallowed ==
    /\ sync.outcome = "raised" =>
           \E i \in 1..Len(sync.failures) : sync.failures[i].failure # "already exists"
    /\ (sync.pc # "idle" /\ connection = <<>>
          /\ AlreadyExists = 1..Len(sync.failures)) => sync.outcome = "completed"
    /\ (sync.pc = "adding" \/ (sync.pc = "done" /\ sync.toAdd # <<>>)) =>
           /\ sync.issued = [i \in 1..Len(sync.toRemove) |->
                                dropIndex(sync.collectionName, sync.toRemove[i])]
                            \o Additions
           /\ connection = <<>> => sync.answered = Len(sync.toRemove) + Len(sync.toAdd)

\* Two additions, the first of which fails with 'already exists' and the
\* second of which creates its index; the call has completed.
C15_Witness ==
    /\ sync.outcome = "completed"
    /\ Len(sync.toAdd) = 2
    /\ Len(sync.failures) = 1
    /\ sync.failures[1] = [failure |-> "already exists", statement |-> Additions[1]]
    /\ \E row \in pgIndexes :
          /\ row.indexname = Additions[2].indexname
          /\ row.indexname # Additions[1].indexname
          /\ row.unique = sync.isUnique

\* The last statement of the call in progress and the answer to it.
LastStatement == dbCall.statements[Len(dbCall.statements)]
LastAnswer == dbCall.answers[Len(dbCall.answers)]

\* The name of a field as the caller knows it, in lexemes.
FieldName(field) ==
    IF IncludesDot(field) THEN <<SplitDot(field)[1], ".", SplitDot(field)[2]>>
    ELSE <<field>>

\* The unique keys and values a failed statement can have violated.
Violations ==
    {v \in UniqueKeys \X SeqsOf(UNION {ColumnValues[c] : c \in Columns}, 1, 2) :
        Len(v[1]) = Len(v[2])}
ViolationErrors == [v \in Violations |-> UniqueViolation(v[1], v[2])]

FailedWrite ==
    /\ dbCall.pc = "raised"
    /\ dbCall.op \in {"create", "updateOne", "upsertOne"}
    /\ dbCall.answers # <<>>
    /\ LastStatement.kind \in {"UPDATE", "INSERT"}
    /\ LastAnswer.failed

\* C16: when a write of create, updateOne or upsertOne fails with the
\* detail of a unique violation `Key (<fields>)=(<values>) already exists.`
\* the call raises DUPLICATE_RECORD with the names of the key's fields as
\* the caller knows them (no JSON-path syntax, cast, parenthesis or quote),
\* the key's values, the collection and the action (the method called, or
\* create when the write is the insert of upsertOne); when the detail is
\* absent or is another text the call raises the driver's error as it is.
C16_FailedWriteClassified ==
    FailedWrite =>
        IF \E v \in Violations : LastAnswer.error = ViolationErrors[v]
        THEN \A v \in Violations :
                LastAnswer.error = ViolationErrors[v] =>
                    dbCall.error =
                        [DataStoresError("DUPLICATE_RECORD") EXCEPT
                            !.duplicateFields = [i \in 1..Len(v[1]) |-> FieldName(v[1][i])],
                            !.duplicateValues = [i \in 1..Len(v[2]) |-> <<v[2][i]>>],
                            !.collectionName = "users",
                            !.action = IF LastStatement.kind = "INSERT" THEN "create"
                                       ELSE dbCall.op]
        ELSE dbCall.error = ThrowDriver(LastAnswer.error)

\* updateOne has violated the unique index on a quoted column and a JSON
\* path, and has raised DUPLICATE_RECORD for firstName and meta.tag.
C16_Witness ==
    /\ FailedWrite
    /\ dbCall.op = "updateOne"
    /\ LastAnswer.error = UniqueViolation(<<"firstName", "meta.tag">>, <<"Joe", "y">>)
    /\ dbCall.error.code = "DUPLICATE_RECORD"
    /\ dbCall.error.duplicateFields = <<<<"firstName">>, <<"meta", ".", "tag">>>>
    /\ dbCall.error.duplicateValues = <<<<"Joe">>, <<"y">>>>

\* C17: a failed connect() raises one DataStoresError that carries the
\* driver's error: UNABLE_TO_CONNECT_TO_DB when the error reports
\* ECONNREFUSED (in its code, or in its message when it has no code),
\* otherwise INVALID_DATABASE_NAME with the first quoted name of the
\* message when the message has 'does not exist', otherwise
\* INVALID_DB_CONNECTION_STRING.  The driver's error itself is never what
\* connect() raises.
C17_ConnectFailureClassified ==
    client.state = "failed" =>
        LET err == client.rejected
            refused == IF err.hasCode THEN err.code = "ECONNREFUSED"
                       ELSE err.hasMessage /\ Includes(err.message, "ECONNREFUSED")
            missing == err.hasMessage /\ Includes(err.message, " does not exist")
        IN /\ client.error.thrown = "DataStoresError"
           /\ client.error.originalError = err
           /\ client.error.code =
                  (IF refused THEN "UNABLE_TO_CONNECT_TO_DB"
                   ELSE IF missing THEN "INVALID_DATABASE_NAME"
                   ELSE "INVALID_DB_CONNECTION_STRING")
           /\ client.error.suppliedName =
                  (IF ~refused /\ missing THEN FirstQuoted(err.message) ELSE <<>>)

\* connect() was rejected with an error that reports ECONNREFUSED and whose
\* message has 'does not exist' too, and has raised UNABLE_TO_CONNECT_TO_DB.
C17_Witness ==
    /\ client.state = "failed"
    /\ ~client.rejected.hasCode
    /\ Includes(client.rejected.message, "ECONNREFUSED")
    /\ Includes(client.rejected.message, " does not exist")
    /\ client.error.code = "UNABLE_TO_CONNECT_TO_DB"

\* The rows of the table the query of the call in progress matches.
MatchedRows == SelectSeq(table, LAMBDA r : Matches(r, dbCall.query))
FirstMatched == CHOOSE i \in 1..Len(table) :
                    /\ Matches(table[i], dbCall.query)
                    /\ \A j \in 1..(i - 1) : ~Matches(table[j], dbCall.query)

\* C18: when the answer to the statement of updateOne comes, the call
\* raises RECORD_NOT_FOUND, with the collection and the query, exactly when
\* the statement succeeded and no row matched (nothing is changed), and
\* when the statement succeeded on some row the call returns the first
\* updated row; update never raises RECORD_NOT_FOUND and, when its
\* statement succeeds, returns the number of rows matched, 0 when none.
C18_RecordNotFound ==
    [][(dbCall.pc = "awaiting" /\ dbCall.op \in {"updateOne", "update"}
        /\ dbCall'.pc \in {"returned", "raised"}) =>
        LET failed == dbCall'.answers[Len(dbCall'.answers)].failed
            notFound == dbCall'.error.code = "RECORD_NOT_FOUND"
        IN IF dbCall.op = "updateOne"
           THEN /\ notFound <=> (~failed /\ MatchedRows = <<>>)
                /\ notFound =>
                       /\ dbCall'.pc = "raised"
                       /\ dbCall'.error.thrown = "DataStoresError"
                       /\ dbCall'.error.storeName = "users"
                       /\ dbCall'.error.query = dbCall.query
                       /\ table' = table
                /\ (~failed /\ MatchedRows # <<>>) =>
                       /\ dbCall'.pc = "returned"
                       /\ dbCall'.returned = Result("row", <<table'[FirstMatched]>>, 0)
                       /\ \A c \in Columns :
                              table'[FirstMatched][c] =
                                  IF c \in DOMAIN dbCall.updates THEN dbCall.updates[c]
                                  ELSE table[FirstMatched][c]
           ELSE /\ ~notFound
                /\ ~failed => /\ dbCall'.pc = "returned"
                               /\ dbCall'.returned = Result("count", <<>>, Len(MatchedRows))
                /\ failed => dbCall'.pc = "raised"]_vars

\* updateOne on a table with a row has matched no row and has raised
\* RECORD_NOT_FOUND with its query.
C18_Witness ==
    /\ dbCall.op = "updateOne"
    /\ dbCall.pc = "raised"
    /\ dbCall.error.code = "RECORD_NOT_FOUND"
    /\ dbCall.error.query = dbCall.query
    /\ dbCall.query # <<>>
    /\ LastAnswer.rowCount = 0
    /\ table # <<>>

StatementKinds == [i \in 1..Len(dbCall.statements) |-> dbCall.statements[i].kind]

\* C19: upsertOne first sends one find of its query limited to one row.
\* When the find gives a row (and it gives one exactly when a row of the
\* table matches the query) the call sends one update of that row by its
\* id with the updates and no insert; when it gives none the call sends
\* one insert of the updates and no update; when the find fails nothing
\* else is sent.  What the call returns is the row the second statement
\* gave, which is in the table.
C19_UpsertFindThenWrite ==
    (dbCall.op = "upsertOne") =>
        /\ dbCall.statements[1] = Statement("SELECT", "users", dbCall.query,
                                            <<>>, <<>>, 1, FALSE)
        /\ Len(dbCall.answers) = 0 => StatementKinds = <<"SELECT">>
        /\ Len(dbCall.answers) >= 1 =>
              LET found == dbCall.answers[1]
              IN IF found.failed
                 THEN StatementKinds = <<"SELECT">> /\ dbCall.pc = "raised"
                 ELSE IF found.rows # <<>>
                 THEN /\ StatementKinds = <<"SELECT", "UPDATE">>
                      /\ Len(found.rows) = 1
                      /\ dbCall.statements[2] =
                             Statement("UPDATE", "users",
                                       "id" :> found.rows[1]["id"],
                                       dbCall.updates, <<>>, 0, TRUE)
                 ELSE /\ StatementKinds = <<"SELECT", "INSERT">>
                      /\ dbCall.statements[2] =
                             Statement("INSERT", "users", <<>>, <<>>,
                                       <<dbCall.updates>>, 0, TRUE)
        /\ (Len(dbCall.answers) = 1 /\ ~dbCall.answers[1].failed) =>
              /\ dbCall.pc = "awaiting"
              /\ (dbCall.statements[2].kind = "UPDATE")
                     <=> (\E i \in 1..Len(table) : Matches(table[i], dbCall.query))
              /\ dbCall.statements[2].kind = "UPDATE" =>
                     dbCall.statements[2].query = ("id" :> table[FirstMatched]["id"])
        /\ dbCall.pc = "returned" =>
              /\ Len(dbCall.answers) = 2
              /\ dbCall.returned = Result("row", <<dbCall.answers[2].rows[1]>>, 0)
              /\ \E i \in 1..Len(table) :
                    /\ table[i] = dbCall.returned.rows[1]
                    /\ \A c \in DOMAIN dbCall.updates :
                           table[i][c] = dbCall.updates[c]

\* upsertOne with a query on a column other than id has found a row, has
\* updated it by its id and has returned it.
C19_Witness ==
    /\ dbCall.op = "upsertOne"
    /\ dbCall.pc = "returned"
    /\ "id" \notin DOMAIN dbCall.query
    /\ Len(table) = 2
    /\ StatementKinds = <<"SELECT", "UPDATE">>
    /\ dbCall.statements[2].query = ("id" :> dbCall.returned.rows[1]["id"])

\* The calls of generateId up to the i-th that did not see the format 'uuid'.
CounterCalls(i) == {j \in 1..i : generated[j].format # "uuid"}

\* C20: the n-th call of generateId that does not see the format 'uuid'
\* returns the decimal string of n, whatever calls came between; a call
\* that sees 'uuid' returns a UUID and leaves the counter, which is one
\* more than the number of the other calls.
C20_CounterIds ==
    /\ \A i \in 1..Len(generated) :
          IF generated[i].format = "uuid"
          THEN generated[i].id \in UUIDs
          ELSE generated[i].id = ToString(Cardinality(CounterCalls(i)))
    /\ \A i, j \in 1..Len(generated) :
          (i < j /\ generated[i].format # "uuid" /\ generated[j].format # "uuid")
              => generated[i].id # generated[j].id
    /\ idCount = 1 + Cardinality(CounterCalls(Len(generated)))

\* Ids '1' and '2' with a UUID between them.
C20_Witness ==
    /\ Len(generated) >= 3
    /\ generated[1] = [id |-> "1", format |-> "unset"]
    /\ generated[2].format = "uuid"
    /\ generated[3] = [id |-> "2", format |-> "number"]
    /\ idCount = 3

\* The statements the call in progress has sent, by kind.
IssuedOf(kind) == {i \in 1..Len(sync.issued) : sync.issued[i].kind = kind}
FailedRemovals ==
    {i \in 1..Len(sync.failures) : sync.failures[i].statement.kind = "DROP INDEX"}

\* C21: when a call of synchronisation has sent a CREATE INDEX, every DROP
\* INDEX of the call was sent before it, has been answered and has
\* succeeded, and none is left on the connection; when a DROP INDEX of the
\* call has failed the call has raised INDEX_NOT_FOUND and has sent no
\* CREATE INDEX.
C21_RemovalsBeforeAdditions ==
    /\ IssuedOf("CREATE INDEX") # {} =>
          /\ \A i \in IssuedOf("DROP INDEX"), j \in IssuedOf("CREATE INDEX") : i < j
          /\ sync.answered >= Cardinality(IssuedOf("DROP INDEX"))
          /\ \A i \in 1..Len(connection) : connection[i].kind # "DROP INDEX"
          /\ FailedRemovals = {}
    /\ FailedRemovals # {} =>
          /\ IssuedOf("CREATE INDEX") = {}
          /\ sync.outcome = "raised"
          /\ sync.error = "INDEX_NOT_FOUND"

\* A call with a removal and an addition has sent its CREATE INDEX.
C21_Witness ==
    /\ sync.pc = "adding"
    /\ IssuedOf("DROP INDEX") # {}
    /\ IssuedOf("CREATE INDEX") # {}
    /\ connection # <<>>

\* The canonical names of a list of indexes, and the indexes of a list whose
\* canonical name is (not) among given names.
NamesOf(indexes) == {CanonicalName(indexes[i]) : i \in 1..Len(indexes)}
Unmatched(indexes, names) ==
    SelectSeq(indexes, LAMBDA index : CanonicalName(index) \notin names)
\* The existing indexes of a uniqueness the adapter reads from these rows.
Existing(rows, collectionName, isUnique) ==
    executeGetIndexes(rows, collectionName, isUnique)
\* The row is one of the existing indexes read, under a canonical name of names.
ListedAs(row, collectionName, names) ==
    \E index \in Range(executeGetIndexes({row}, collectionName, row.unique)) :
        CanonicalName(index) \in names

FailedAdditions ==
    {i \in 1..Len(sync.failures) : sync.failures[i].statement.kind = "CREATE INDEX"}

\* C23: a call of synchronisation has raised DUPLICATE_KEY only when one of
\* its CREATE INDEX statements failed because the index already exists, and
\* when a CREATE INDEX of the call failed for another reason the call has
\* raised the driver's error as executeCreateIndex re-raises it.
C23_DuplicateKeyOnlyOnCollision ==
    /\ sync.error = "DUPLICATE_KEY" =>
          \E i \in FailedAdditions : sync.failures[i].failure = "already exists"
    /\ \A i \in FailedAdditions :
          sync.failures[i].failure # "already exists" =>
             /\ sync.outcome = "raised"
             /\ sync.error = executeCreateIndexError(sync.failures[i].failure,
                                                    sync.failures[i].statement)

\* C24: when createIndex or createUniqueIndex has returned or raised, it has
\* raised INDEX_EXISTS with the collection and the fields of the index asked
\* for exactly when its statement failed with a message that contains
\* 'already exists', it has raised the driver's error with its message when
\* the statement failed otherwise, and nothing when it succeeded; dropIndex
\* has raised INDEX_NOT_FOUND, with the collection and the fields, exactly
\* when its statement failed.
C24_IndexCallErrors ==
    indexCall.pc = "returned" =>
        IF indexCall.op = "dropIndex"
        THEN IF indexCall.failed
             THEN /\ indexCall.thrown.thrown = "DataStoresError"
                  /\ indexCall.thrown.code = "INDEX_NOT_FOUND"
                  /\ indexCall.thrown.collectionName = indexCall.collectionName
                  /\ indexCall.thrown.missingIndex = indexCall.index.fields
             ELSE indexCall.thrown.thrown = "none"
        ELSE /\ indexCall.thrown.code = "INDEX_EXISTS"
                    <=> indexCall.failed /\ Includes(indexCall.message, "already exists")
             /\ indexCall.thrown.code = "INDEX_EXISTS" =>
                    /\ indexCall.thrown.thrown = "DataStoresError"
                    /\ indexCall.thrown.collectionName = indexCall.collectionName
                    /\ indexCall.thrown.index = indexCall.index.fields
             /\ indexCall.failed /\ ~Includes(indexCall.message, "already exists") =>
                    /\ indexCall.thrown.thrown = "driver"
                    /\ indexCall.thrown.message = indexCall.message
             /\ ~indexCall.failed => indexCall.thrown.thrown = "none"

\* createUniqueIndex on ['email'] has met the non-unique index of that name.
C24_Witness ==
    /\ indexCall.pc = "returned"
    /\ indexCall.op = "createUniqueIndex"
    /\ indexCall.thrown.code = "INDEX_EXISTS"
    /\ indexCall.thrown.index = <<"email">>
    /\ \E row \in pgIndexes : ~row.unique /\ row.indexname = <<"users", "email", "index">>

\* C25: the Built Query createIndex returns for an index with a filter
\* document has as many placeholders in its WHERE clause as it has values,
\* and its values are the values the filter's WHERE clause binds, in order.
C25_CreateIndexPlaceholders ==
    (Returned({"createIndex"}) /\ Truthy(call.index.filter)) =>
        /\ Len(PlaceholderSeq(WherePart(built.sql))) = Len(built.values)
        /\ built.values = optionallyBuildWhere(call.index.filter, 0).values

\* The placeholder of cell k of a create is followed by a `::json` cast.
HasCast(sql, k) ==
    \E i \in 1..(Len(sql) - 1) : sql[i] = Placeholder(k) /\ sql[i + 1] = "::json"
\* The value of cell k, in row-major order (undefined when the record lacks
\* the field).
CellValue(records, columns, k) ==
    Get(records[((k - 1) \div Len(columns)) + 1], columns[((k - 1) % Len(columns)) + 1])

\* C26: in the Built Query of create the placeholder of a cell carries a
\* `::json` cast exactly when the cell's value is a non-null object or an
\* array, and the value bound for an array is its JSON text with the outer
\* brackets replaced by braces.
C26_JsonCasts ==
    Returned({"create"}) =>
        LET columns == FirstAppearance(call.records, 1, <<>>)
        IN \A k \in 1..(Len(call.records) * Len(columns)) :
              LET value == CellValue(call.records, columns, k)
              IN /\ HasCast(built.sql, k) <=> value.t \in {"object", "array", "regexp"}
                 /\ value.t = "array" =>
                       built.values[k] = Str("{" \o JsonArrayInner(value) \o "}")

\* field.toLowerCase() with every `.` replaced by `_`, as JavaScript gives it
\* for the field names used.
LowerUnderscored ==
    [f \in {"email", "slug", "first", "name", "ghost", "first_name"} |-> f]
    @@ ("firstName" :> "firstname") @@ ("firstname" :> "firstname")
    @@ ("meta.tag" :> "meta_tag")
\* The name the claim gives for a table and a list of fields, as one string.
NameAsText(tableName, fields) ==
    tableName \o "_" \o JoinStr([i \in 1..Len(fields) |-> LowerUnderscored[fields[i]]], "_")
          \o "_index"
\* The name a statement carries, as one string.
StatementName(stmt) == JoinStr(stmt.indexname, "_")

\* C27: the index name in the statement of createIndex, createUniqueIndex
\* and dropIndex, and in every CREATE INDEX of synchronisation, is the table
\* name, `_`, the fields in the order given, each in lower case with `.`
\* replaced by `_`, joined by `_`, and `_index`: a function of the table and
\* the field list alone.
C27_CanonicalIndexName ==
    /\ indexCall.pc = "sent" =>
          StatementName(connection[1])
             = NameAsText(indexCall.collectionName, indexCall.index.fields)
    /\ \A i \in IssuedOf("CREATE INDEX") :
          StatementName(sync.issued[i])
             = NameAsText(sync.collectionName, sync.issued[i].fields)

\* What a builder made for the occasion returns for the arguments of the
\* last call, under the toggle as it is.
FreshlyBuilt ==
    CASE call.op = "find" -> find(call.tableName, call.query, call.options)
      [] call.op = "delete" -> delete(call.tableName, call.query)
      [] call.op = "update" -> update(call.tableName, call.query, call.updates, call.flag)
      [] call.op = "create" -> create(call.tableName, call.records)

\* C28: whatever flips of the quoting toggle came before it, a call of find,
\* create, update or delete returns what a builder made at that moment
\* returns for the same arguments, and writes the table name in double
\* quotes exactly when the toggle is 'true' at the call.
C28_ToggleReadPerCall ==
    Returned({"find", "create", "update", "delete"}) =>
        /\ built = FreshlyBuilt
        /\ Has(built.sql, Quoted(call.tableName)) <=> quoteEnv = "true"
        /\ Has(built.sql, call.tableName) <=> quoteEnv # "true"

\* The toggle was set to 'true' after the builder was made and an update
\* was built under it.
C28_Witness ==
    /\ Returned({"update"})
    /\ quoteEnv = "true"
    /\ Has(built.sql, Quoted(call.tableName))
    /\ Len(built.values) > 0

\* The records a caller's upsertOne has inserted, and whether some unique
\* index covers the fields of a query.
Inserted(c) ==
    {i \in 1..Len(callers[c].answers) :
        callers[c].statements[i].kind = "INSERT" /\ ~callers[c].answers[i].failed}
Covered(query) ==
    \E key \in UniqueKeys : \A k \in 1..Len(key) : key[k] \in DOMAIN query
SameUpsert ==
    /\ \A c \in Callers : callers[c].op = "upsertOne"
    /\ \A c1, c2 \in Callers :
          callers[c1].query = callers[c2].query /\ callers[c1].updates = callers[c2].updates

\* C29: when two callers have called upsertOne with the same query and the
\* same updates on a table none of whose rows matched the query and none
\* of whose unique indexes covers the fields of the query, the two calls
\* have inserted at most one record between them and neither has raised
\* RECORD_NOT_FOUND.
C29_ConcurrentUpsert ==
    (/\ SameUpsert
     /\ ~Covered(callers["first"].query)
     /\ \A i \in 1..Len(tableAtStart) :
           ~Matches(tableAtStart[i], callers["first"].query))
    => /\ Cardinality(Inserted("first")) + Cardinality(Inserted("second")) <= 1
       /\ \A c \in Callers : callers[c].error.code # "RECORD_NOT_FOUND"

\* C30: whatever indexes the collection starts with, when a call of
\* syncIndexes / syncUniqueIndexes has completed without raising, the
\* canonical names of the collection's indexes of the uniqueness asked for
\* (as the adapter reads them) are exactly the canonical names of the
\* desired indexes.
C30_SyncReachesDesired ==
    (sync.outcome = "completed" /\ connection = <<>>) =>
        NamesOf(Existing(pgIndexes, sync.collectionName, sync.isUnique))
            = NamesOf(sync.indexes)

====
